---------------------------- MODULE Spec2Model ----------------------------
(***************************************************************************)
(* A model of pyhOn's command/parameter core: typed parameters with their  *)
(* validation and trigger tables (pyhon/parameter), the rule engine        *)
(* (pyhon/rules.py), commands (pyhon/commands.py) and the command loader   *)
(* with categories and favourites (pyhon/command_loader.py).               *)
(*                                                                         *)
(* Python values are records: [t |-> "int", h |-> n], [t |-> "float",      *)
(* h |-> n] and [t |-> "str", s |-> chars].  A number is held as its count *)
(* of halves h (40 is h = 80, 40.5 is h = 81): halves are exact in binary  *)
(* floating point, so the code's float arithmetic on them is exact and is  *)
(* the integer arithmetic used here.  A string is its sequence of          *)
(* one-character strings.                                                  *)
(***************************************************************************)
EXTENDS Integers, Sequences, FiniteSets, TLC

VARIABLES
    params,     \* HonCommand._parameters of the command at hand: key -> Parameter
    fired,      \* the trigger callbacks invoked by the last call, in order
    outcome,    \* how the last call ended: "ok" or the exception it raised
    last,       \* the last call: its operation and arguments
    pre,        \* the state as it was when the last call began
    objects,    \* the HonCommand objects, by identity
    dicts,      \* the _parameters dicts, by identity
    maps,       \* the categories dicts, by identity
    commands,   \* HonAppliance._commands: command name -> HonCommand
    _attributes, \* HonAppliance._attributes["parameters"]: name -> Attribute
    now,        \* datetime.now(), in seconds
    __data,     \* DictTool.__data: the flattened dict, or NoData
    _tokens     \* Authenticator._tokens

pvars == <<params, fired, outcome, last, pre>>

hvars == <<objects, dicts, maps, commands, _attributes, now, __data, _tokens>>

vars == <<params, fired, outcome, last, pre, objects, dicts, maps, commands,
          _attributes, now, __data, _tokens>>

(***************************************************************************)
(* Python values and the string operations the code uses.                  *)
(***************************************************************************)
PyInt(k) == [t |-> "int", h |-> 2 * k]

PyFloat(halves) == [t |-> "float", h |-> halves]

PyStr(chars) == [t |-> "str", s |-> chars]

PyNone == [t |-> "none"]

UpperCase == <<"A", "B", "C", "D", "E", "F", "G", "H", "I", "J", "K", "L", "M",
               "N", "O", "P", "Q", "R", "S", "T", "U", "V", "W", "X", "Y", "Z">>

LowerCase == <<"a", "b", "c", "d", "e", "f", "g", "h", "i", "j", "k", "l", "m",
               "n", "o", "p", "q", "r", "s", "t", "u", "v", "w", "x", "y", "z">>

Digits == <<"0", "1", "2", "3", "4", "5", "6", "7", "8", "9">>

LowerChar(c) ==
    IF \E i \in 1..Len(UpperCase) : UpperCase[i] = c
    THEN LowerCase[CHOOSE i \in 1..Len(UpperCase) : UpperCase[i] = c]
    ELSE c

UpperChar(c) ==
    IF \E i \in 1..Len(LowerCase) : LowerCase[i] = c
    THEN UpperCase[CHOOSE i \in 1..Len(LowerCase) : LowerCase[i] = c]
    ELSE c

\* str.lower()
Lower(s) == [i \in 1..Len(s) |-> LowerChar(s[i])]

\* str.upper()
Upper(s) == [i \in 1..Len(s) |-> UpperChar(s[i])]

\* str.strip(chars): leading and trailing characters of the set removed
RECURSIVE LStrip(_, _)
LStrip(s, cs) == IF s # <<>> /\ Head(s) \in cs THEN LStrip(Tail(s), cs) ELSE s

RECURSIVE RStrip(_, _)
RStrip(s, cs) ==
    IF s # <<>> /\ s[Len(s)] \in cs THEN RStrip(SubSeq(s, 1, Len(s) - 1), cs) ELSE s

Strip(s, cs) == RStrip(LStrip(s, cs), cs)

\* str.replace(a, b) for single characters
Replace(s, a, b) == [i \in 1..Len(s) |-> IF s[i] = a THEN b ELSE s[i]]

\* sub in s
Contains(s, sub) ==
    \E i \in 0..(Len(s) - Len(sub)) : SubSeq(s, i + 1, i + Len(sub)) = sub

\* str.split(sep) for a single character
RECURSIVE Split(_, _)
Split(s, sep) ==
    IF \E i \in 1..Len(s) : s[i] = sep
    THEN LET i == CHOOSE j \in 1..Len(s) :
                      s[j] = sep /\ \A k \in 1..(j - 1) : s[k] # sep
         IN <<SubSeq(s, 1, i - 1)>> \o Split(SubSeq(s, i + 1, Len(s)), sep)
    ELSE <<s>>

\* str.rsplit(sep, 1)[-1]
LastPart(s, sep) == LET parts == Split(s, sep) IN parts[Len(parts)]

IsDigit(c) == \E i \in 1..Len(Digits) : Digits[i] = c

DigitValue(c) == (CHOOSE i \in 1..Len(Digits) : Digits[i] = c) - 1

RECURSIVE ParseDigits(_)
ParseDigits(s) ==
    IF s = <<>> THEN 0
    ELSE 10 * ParseDigits(SubSeq(s, 1, Len(s) - 1)) + DigitValue(s[Len(s)])

RECURSIVE NatToStr(_)
NatToStr(n) ==
    IF n < 10 THEN <<Digits[n + 1]>>
    ELSE NatToStr(n \div 10) \o <<Digits[(n % 10) + 1]>>

\* a decimal integer literal as int() reads it: digits only
IsIntLiteral(s) == s # <<>> /\ \A i \in 1..Len(s) : IsDigit(s[i])

\* a decimal literal with one fractional digit 0 or 5, as float() reads it
IsFloatLiteral(s) ==
    /\ Len(s) >= 3
    /\ s[Len(s) - 1] = "."
    /\ s[Len(s)] \in {"0", "5"}
    /\ IsIntLiteral(SubSeq(s, 1, Len(s) - 2))

FloatLiteralHalves(s) ==
    2 * ParseDigits(SubSeq(s, 1, Len(s) - 2)) + (IF s[Len(s)] = "5" THEN 1 ELSE 0)

\* str(x) of a Python value (numbers here are never negative)
Str(x) ==
    CASE x.t = "str" -> x.s
      [] x.t = "int" -> NatToStr(x.h \div 2)
      [] x.t = "float" -> NatToStr(x.h \div 2) \o <<".">>
                              \o (IF x.h % 2 = 0 THEN <<"0">> ELSE <<"5">>)
      [] OTHER -> <<"N", "o", "n", "e">>

\* x == y in Python: numbers compare by value, strings by content, and a
\* number never equals a string
PyEq(x, y) ==
    IF x.t \in {"int", "float"} /\ y.t \in {"int", "float"} THEN x.h = y.h
    ELSE x = y

(***************************************************************************)
(* pyhon/helper.py                                                         *)
(***************************************************************************)
\* int(x) succeeds on every number (truncating a float) and on an integer
\* literal; only its ValueError is caught, and then float() may raise one.
str_to_float(x) ==
    CASE x.t = "int" -> [ok |-> TRUE, val |-> x]
      [] x.t = "float" -> [ok |-> TRUE, val |-> PyInt(x.h \div 2)]
      [] x.t = "str" /\ IsIntLiteral(x.s) ->
            [ok |-> TRUE, val |-> PyInt(ParseDigits(x.s))]
      [] x.t = "str" /\ IsFloatLiteral(Replace(x.s, ",", ".")) ->
            [ok |-> TRUE, val |-> PyFloat(FloatLiteralHalves(Replace(x.s, ",", ".")))]
      [] OTHER -> [ok |-> FALSE, val |-> x]

(***************************************************************************)
(* Parameters.  One record shape serves the variants; a variant leaves the *)
(* fields of the others at their empty values.  _triggers is the dict      *)
(* token -> [(func, data)] in insertion order.                             *)
(***************************************************************************)
Truthy(x) ==
    CASE x.t = "str" -> x.s # <<>>
      [] x.t \in {"int", "float"} -> x.h # 0
      [] OTHER -> FALSE

\* dict.get(key, default) on a field that holds PyNone when the key is absent
Get(x, default) == IF x.t = "none" THEN default ELSE x

NoAttributes ==
    [typology |-> PyNone, category |-> PyNone, mandatory |-> 0,
     defaultValue |-> PyNone, enumValues |-> <<>>, hasEnumValues |-> FALSE,
     minimumValue |-> PyNone, maximumValue |-> PyNone, incrementValue |-> PyNone,
     fixedValue |-> PyNone]

BlankParameter(kind, key, attributes, group) ==
    [kind |-> kind, key |-> key, group |-> group,
     mandatory |-> attributes.mandatory,
     _value |-> PyStr(<<>>), _default |-> PyStr(<<>>),
     min |-> 0, max |-> 0, _step |-> 0,
     _values |-> <<>>, _triggers |-> <<>>,
     _command |-> 0, _programs |-> 0]

\* enum.py: clean_value
clean_value(x) == Lower(Replace(Strip(Str(x), {"[", "]"}), "|", "_"))

\* EnumParameter.values (getter)
EnumValues(p) == [i \in 1..Len(p._values) |-> clean_value(p._values[i])]

InSeq(x, seq) == \E i \in 1..Len(seq) : seq[i] = x

\* FixedParameter.__init__ / _set_attributes
FixedParameter(key, attributes, group) ==
    [BlankParameter("fixed", key, attributes, group)
        EXCEPT !._value = Get(attributes.fixedValue, PyStr(<<>>))]

\* HonParameterRange.__init__ / _set_attributes (the attributes are numerals)
RangeParameter(key, attributes, group) ==
    LET lo == str_to_float(Get(attributes.minimumValue, PyInt(0))).val
        hi == str_to_float(Get(attributes.maximumValue, PyInt(0))).val
        st == str_to_float(Get(attributes.incrementValue, PyInt(0))).val
        df == str_to_float(Get(attributes.defaultValue, lo)).val
    IN [BlankParameter("range", key, attributes, group)
           EXCEPT !.min = lo.h, !.max = hi.h, !._step = st.h,
                  !._default = df, !._value = df]

\* EnumParameter.__init__ / _set_attributes
EnumParameter(key, attributes, group) ==
    LET default == Get(attributes.defaultValue, PyStr(<<>>))
        p == [BlankParameter("enum", key, attributes, group)
                 EXCEPT !._default = default,
                        !._value = IF Truthy(default) THEN default
                                   ELSE PyStr(<<"0">>),
                        !._values = attributes.enumValues]
    IN IF Truthy(default)
          /\ ~InSeq(clean_value(PyStr(Strip(Str(default), {"[", "]"}))), EnumValues(p))
       THEN [p EXCEPT !._values = Append(@, default)]
       ELSE p

\* HonParameterRange.step (getter)
Step(p) == IF p._step = 0 THEN 2 ELSE p._step

\* the value property of each variant
Value(p) ==
    CASE p.kind = "fixed" -> IF p._value = PyStr(<<>>) THEN PyStr(<<"0">>) ELSE p._value
      [] p.kind = "range" -> p._value
      [] p.kind = "enum" -> PyStr(clean_value(p._value))
      [] OTHER -> p._value

\* the intern_value property of each variant
InternValue(p) ==
    CASE p.kind \in {"enum", "program"} -> Str(p._value)
      [] OTHER -> Str(Value(p))

\* HonParameterRange.values: count(min, step) while <= max
RangeValues(p) ==
    IF p.max < p.min THEN <<>>
    ELSE [i \in 1..(((p.max - p.min) \div Step(p)) + 1) |->
              Str(PyFloat(p.min + (i - 1) * Step(p)))]

\* the values property of each variant
Values(p) ==
    CASE p.kind = "range" -> RangeValues(p)
      [] p.kind = "enum" -> EnumValues(p)
      [] OTHER -> <<Str(Value(p))>>

\* the test of the Range value setter on the converted number
RangeAccepts(p, v) ==
    /\ p.min <= v.h
    /\ v.h <= p.max
    /\ (v.h - p.min) % Step(p) = 0

\* the test of the Enum value setter: value in self.values
EnumAccepts(p, v) == v.t = "str" /\ InSeq(v.s, EnumValues(p))

\* Parameter.__repr__ (Range overrides it): what str(parameter) returns
Repr(p) ==
    IF p.kind = "range"
    THEN <<"<class 'pyhon.parameter.range.HonParameterRange'> (<">> \o p.key
    ELSE <<"<class 'pyhon.parameter'> (<">> \o p.key \o <<">", "=">> \o Str(Value(p))


(***************************************************************************)
(* Value assignment, triggers and rule effects.  A call works on a record  *)
(* st = [params, fired, err]: the command's parameters, the callbacks      *)
(* invoked so far and the exception in flight ("none" while there is      *)
(* none).  Once an exception is in flight the remaining statements are     *)
(* skipped; what was assigned before it was raised stays assigned.         *)
(* A callback is [func, rule, id]: func "apply" is the closure of          *)
(* HonRuleSet._add_trigger, func "probe" a callback that changes nothing.  *)
(* The depth d counts nested callback invocations; a cascade deeper than   *)
(* MaxDepth ends in Python's RecursionError.                               *)
(***************************************************************************)
MaxDepth == 4

Raise(st, e) == [st EXCEPT !.err = e]

Failed(st) == st.err # "none"

Begin(ps) == [params |-> ps, fired |-> <<>>, err |-> "none"]

NoExtras == [none |-> TRUE, items |-> <<>>]

NoParamData ==
    [typology |-> PyNone, fixedValue |-> PyNone, enumValues |-> PyNone,
     defaultValue |-> PyNone]

\* float(x) as apply_fixed_value of a Range uses it
ToFloat(x) ==
    CASE x.t \in {"int", "float"} -> [ok |-> TRUE, val |-> PyFloat(x.h)]
      [] x.t = "str" /\ IsIntLiteral(x.s) ->
            [ok |-> TRUE, val |-> PyFloat(2 * ParseDigits(x.s))]
      [] x.t = "str" /\ IsFloatLiteral(x.s) ->
            [ok |-> TRUE, val |-> PyFloat(FloatLiteralHalves(x.s))]
      [] OTHER -> [ok |-> FALSE, val |-> x]

\* check_trigger's dict {str(k).lower(): v}: the tokens it holds ...
LoweredTokens(triggers) == {Lower(triggers[i].token) : i \in 1..Len(triggers)}

\* ... and the callbacks under one of them: a later key that lowers to the
\* same token replaces the list of an earlier one
LoweredLookup(triggers, token) ==
    LET i == CHOOSE j \in 1..Len(triggers) :
                 /\ Lower(triggers[j].token) = token
                 /\ \A k \in (j + 1)..Len(triggers) : Lower(triggers[k].token) # token
    IN triggers[i].cbs

\* HonRuleSet._extra_rules_matches: str(parameter) is compared with the value
ExtraRulesMatches(ps, rule) ==
    \A i \in 1..Len(rule.extras.items) :
        LET key == rule.extras.items[i].key
            value == rule.extras.items[i].value
        IN /\ key \in DOMAIN ps
           /\ Repr(ps[key]) = Str(PyStr(value))

RECURSIVE SetValue(_, _, _, _)
RECURSIVE CheckTrigger(_, _, _, _)
RECURSIVE RunCallbacks(_, _, _, _, _)
RECURSIVE Call(_, _, _, _)
RECURSIVE Apply(_, _, _)
RECURSIVE ApplyFixedValue(_, _, _, _)
RECURSIVE ApplyRule(_, _, _, _)

\* an apply_fixed_value that narrows a range to the value
ApplyFixedValueNarrow(st, key, v, d) ==
    IF ~ToFloat(v).ok THEN Raise(st, "ValueError")
    ELSE SetValue([st EXCEPT !.params[key].min = ToFloat(v).val.h,
                             !.params[key].max = ToFloat(v).val.h],
                  key, ToFloat(v).val, d)

\* the value setter of each variant
SetValue(st, key, v, d) ==
    LET p == st.params[key]
    IN CASE Failed(st) -> st
         [] p.kind = "fixed" ->
              CheckTrigger([st EXCEPT !.params[key]._value = v], key, v, d)
         [] p.kind = "range" ->
              LET r == str_to_float(v)
              IN IF r.ok /\ RangeAccepts(p, r.val)
                 THEN CheckTrigger([st EXCEPT !.params[key]._value = r.val],
                                   key, r.val, d)
                 ELSE Raise(st, "ValueError")
         [] p.kind = "enum" ->
              IF EnumAccepts(p, v)
              THEN CheckTrigger([st EXCEPT !.params[key]._value = v], key, v, d)
              ELSE Raise(st, "ValueError")
         [] OTHER -> st

\* a check_trigger that leaves the triggers of a parameter changed by an
\* effect for later
CheckTriggerDeferred(st, key, v, d) ==
    IF d > 0 THEN st
    ELSE IF Lower(Str(v)) \in LoweredTokens(st.params[key]._triggers)
    THEN RunCallbacks(st, key, LoweredLookup(st.params[key]._triggers, Str(v)), 1, d)
    ELSE st

\* Parameter.check_trigger
CheckTrigger(st, key, v, d) ==
    LET triggers == st.params[key]._triggers
    IN IF Lower(Str(v)) \in LoweredTokens(triggers)
       THEN IF Str(v) \in LoweredTokens(triggers)
            THEN RunCallbacks(st, key, LoweredLookup(triggers, Str(v)), 1, d)
            ELSE Raise(st, "KeyError")
       ELSE st

\* the loop of check_trigger over the callbacks of one token
RunCallbacks(st, key, cbs, i, d) ==
    IF Failed(st) \/ i > Len(cbs) THEN st
    ELSE RunCallbacks(Call(st, key, cbs[i], d), key, cbs, i + 1, d)

\* func(data): one invocation of a callback registered on parameter key
Call(st, key, cb, d) ==
    LET st1 == [st EXCEPT !.fired = Append(@, [on |-> key, id |-> cb.id, depth |-> d])]
    IN IF d >= MaxDepth THEN Raise(st1, "RecursionError")
       ELSE IF cb.func = "apply" THEN Apply(st1, cb.rule, d + 1)
       ELSE st1

\* the closure apply(rule) of HonRuleSet._add_trigger
Apply(st, rule, d) ==
    IF ExtraRulesMatches(st.params, rule) /\ rule.param_key \in DOMAIN st.params
    THEN IF Truthy(Get(rule.param_data.fixedValue, PyStr(<<>>)))
         THEN ApplyFixedValue(st, rule.param_key, rule.param_data.fixedValue, d)
         ELSE IF rule.param_data.typology = PyStr(<<"e", "n", "u", "m">>)
              THEN ApplyRule(st, rule.param_key, rule, d)
              ELSE st
    ELSE st

\* apply_fixed_value of each variant
ApplyFixedValue(st, key, v, d) ==
    LET p == st.params[key]
    IN CASE p.kind = "range" ->
              LET f == ToFloat(v)
              IN IF ~f.ok THEN Raise(st, "ValueError")
                 ELSE SetValue([st EXCEPT
                                   !.params[key].min = IF f.val.h < @ THEN f.val.h ELSE @,
                                   !.params[key].max = IF f.val.h > @ THEN f.val.h ELSE @],
                               key, f.val, d)
         [] p.kind = "enum" ->
              IF {EnumValues(p)[i] : i \in 1..Len(p._values)} # {Str(v)}
              THEN SetValue([st EXCEPT !.params[key]._values = <<PyStr(Str(v))>>],
                            key, PyStr(Str(v)), d)
              ELSE st
         [] OTHER -> SetValue(st, key, PyStr(Str(v)), d)

\* apply_rule of each variant
ApplyRule(st, key, rule, d) ==
    LET p == st.params[key]
        enum_values == rule.param_data.enumValues
        default_value == rule.param_data.defaultValue
        st1 == IF Truthy(enum_values)
               THEN [st EXCEPT !.params[key]._values =
                        LET parts == Split(Str(enum_values), "|")
                        IN [i \in 1..Len(parts) |-> PyStr(parts[i])]]
               ELSE st
    IN IF p.kind # "enum" THEN Raise(st, "TypeError")
       ELSE IF Truthy(default_value) THEN SetValue(st1, key, default_value, d)
       ELSE st1

\* Parameter.add_trigger
AddTrigger(st, key, token, cb, d) ==
    LET st1 == IF PyEq(st.params[key]._value, PyStr(token))
               THEN Call(st, key, cb, d)
               ELSE st
        triggers == st1.params[key]._triggers
    IN IF Failed(st1) THEN st1
       ELSE IF \E i \in 1..Len(triggers) : triggers[i].token = token
       THEN LET i == CHOOSE j \in 1..Len(triggers) : triggers[j].token = token
            IN [st1 EXCEPT !.params[key]._triggers[i].cbs = Append(@, cb)]
       ELSE [st1 EXCEPT !.params[key]._triggers =
                Append(@, [token |-> token, cbs |-> <<cb>>])]


(***************************************************************************)
(* pyhon/rules.py: HonRuleSet.  A rule dict is a tree: Leaf(x) is a        *)
(* non-dict value, Dict(items) a dict with its items in order, each        *)
(* [k |-> key, v |-> node].  A key such as "@mode" is written <<"@",       *)
(* "mode">>: a parameter name is one element of the sequence, and the name *)
(* a key denotes is that element.  The parser's state is ps = [rules,      *)
(* heap, err]: _rules as a list of [key, list] in insertion order, and the *)
(* extras dicts the rules refer to, each a list of [key, value]; a rule    *)
(* holds the index of its extras dict (0 for None), because the parser     *)
(* hands one dict object to several rules and goes on writing to it.       *)
(***************************************************************************)
Leaf(x) == [d |-> FALSE, val |-> x, items |-> <<>>]

Dict(items) == [d |-> TRUE, val |-> PyNone, items |-> items]

\* key in node
HasKey(node, key) == \E i \in 1..Len(node.items) : node.items[i].k = key

\* node.get(key) for a key whose value is no dict; PyNone when absent
LeafAt(node, key) ==
    IF \E i \in 1..Len(node.items) : node.items[i].k = key /\ ~node.items[i].v.d
    THEN node.items[CHOOSE i \in 1..Len(node.items) : node.items[i].k = key].v.val
    ELSE PyNone

\* the param_data dict of a rule, by the keys the engine reads
ParamData(node) ==
    [typology |-> LeafAt(node, <<"typology">>),
     fixedValue |-> LeafAt(node, <<"fixedValue">>),
     enumValues |-> LeafAt(node, <<"enumValues">>),
     defaultValue |-> LeafAt(node, <<"defaultValue">>)]

\* appliance.options.get(key, key) for an appliance model without options
Options(key) == key

\* the parameter name a key denotes once its "@" are removed
NameOf(key) ==
    LET plain == SelectSeq(key, LAMBDA c : c # "@")
    IN IF Len(plain) = 1 THEN plain[1] ELSE ""

\* d[key] = value on a dict held as a list of [key, value]
DictSet(d, key, value) ==
    IF \E i \in 1..Len(d) : d[i].key = key
    THEN [i \in 1..Len(d) |-> IF d[i].key = key THEN [key |-> key, value |-> value]
                                ELSE d[i]]
    ELSE Append(d, [key |-> key, value |-> value])

\* d.pop(key)
DictPop(d, key) == SelectSeq(d, LAMBDA e : e.key # key)

\* rules.setdefault(key, []).append(rule)
AddRule(rules, key, rule) ==
    IF \E i \in 1..Len(rules) : rules[i].key = key
    THEN [i \in 1..Len(rules) |->
             IF rules[i].key = key
             THEN [key |-> key, list |-> Append(rules[i].list, rule)]
             ELSE rules[i]]
    ELSE Append(rules, [key |-> key, list |-> <<rule>>])

EmptyRuleSet == [rules |-> <<>>, heap |-> <<>>, err |-> "none"]

\* HonRuleSet._create_rule
CreateRule(ps, param_key, trigger_key, trigger_value, param_data, extras) ==
    IF ParamData(param_data).fixedValue # PyStr(<<"@", param_key>>)
    THEN [ps EXCEPT !.rules =
             AddRule(@, trigger_key,
                     [trigger_key |-> trigger_key, trigger_value |-> trigger_value,
                      param_key |-> param_key, param_data |-> ParamData(param_data),
                      extras |-> extras])]
    ELSE ps

RECURSIVE ParseConditions(_, _, _, _, _)
RECURSIVE ParseItems(_, _, _, _, _, _)
RECURSIVE ParseAlternatives(_, _, _, _, _, _, _)
RECURSIVE ParseChildren(_, _, _, _, _)

\* HonRuleSet._parse_conditions: trigger_data.items() fails on a non-dict
ParseConditions(ps, param_key, trigger_key, trigger_data, extra) ==
    IF Failed(ps) THEN ps
    ELSE IF ~trigger_data.d THEN Raise(ps, "AttributeError")
    ELSE ParseItems(ps, param_key, Options(NameOf(trigger_key)),
                    trigger_data.items, 1, extra)

\* its loop over trigger_data.items(); extra, once created, is kept for the
\* items that follow
ParseItems(ps, param_key, trigger_key, items, i, extra) ==
    IF Failed(ps) \/ i > Len(items) THEN ps
    ELSE LET r == ParseAlternatives(ps, param_key, trigger_key,
                                    Split(items[i].k, "|"), 1, items[i].v, extra)
         IN ParseItems(r.ps, param_key, trigger_key, items, i + 1, r.extra)

\* its loop over multi_trigger_value.split("|"); param_data, once replaced
\* by a dict in the else branch, stays replaced for the next alternative
ParseAlternatives(ps, param_key, trigger_key, values, j, param_data, extra) ==
    IF Failed(ps) \/ j > Len(values) THEN [ps |-> ps, extra |-> extra]
    ELSE IF param_data.d
    THEN LET ps1 == IF HasKey(param_data, <<"typology">>)
                    THEN CreateRule(ps, param_key, trigger_key, values[j],
                                    param_data, extra)
                    ELSE ps
             ps2 == IF extra = 0 THEN [ps1 EXCEPT !.heap = Append(@, <<>>)] ELSE ps1
             ref == IF extra = 0 THEN Len(ps2.heap) ELSE extra
             ps3 == [ps2 EXCEPT !.heap[ref] = DictSet(@, trigger_key, values[j])]
         IN ParseAlternatives(ParseChildren(ps3, param_key, param_data.items, 1, ref),
                              param_key, trigger_key, values, j + 1, param_data, ref)
    ELSE LET fixed == Dict(<<[k |-> <<"typology">>, v |-> Leaf(PyStr(<<"f", "i", "x", "e", "d">>))],
                             [k |-> <<"fixedValue">>, v |-> param_data]>>)
         IN ParseAlternatives(CreateRule(ps, param_key, trigger_key, values[j], fixed, extra),
                              param_key, trigger_key, values, j + 1, fixed, extra)

\* its loop over param_data.items()
ParseChildren(ps, param_key, items, k, extra) ==
    IF Failed(ps) \/ k > Len(items) THEN ps
    ELSE ParseChildren(ParseConditions(ps, param_key, items[k].k, items[k].v, extra),
                       param_key, items, k + 1, extra)

RECURSIVE ParseTriggers(_, _, _, _)
ParseTriggers(ps, param_key, items, i) ==
    IF Failed(ps) \/ i > Len(items) THEN ps
    ELSE ParseTriggers(ParseConditions(ps, param_key, items[i].k, items[i].v, 0),
                       param_key, items, i + 1)

\* HonRuleSet._parse_rule
RECURSIVE ParseRule(_, _, _)
ParseRule(ps, rule, i) ==
    IF Failed(ps) \/ i > Len(rule.items) THEN ps
    ELSE IF ~rule.items[i].v.d THEN Raise(ps, "AttributeError")
    ELSE ParseRule(ParseTriggers(ps, Options(NameOf(rule.items[i].k)),
                                 rule.items[i].v.items, 1),
                   rule, i + 1)

\* HonRuleSet.__init__
HonRuleSet(rule) == ParseRule(EmptyRuleSet, rule, 1)

\* the rules of a rule set in the order of iteration over _rules.values()
RECURSIVE AllRules(_)
AllRules(rules) ==
    IF rules = <<>> THEN <<>> ELSE Head(rules).list \o AllRules(Tail(rules))

\* the rules _duplicate_for_extra_conditions derives from one rule: one per
\* item of its extras, that item swapped with the rule's own trigger
Duplicates(rule, extras) ==
    [i \in 1..Len(extras) |->
        [trigger_key |-> extras[i].key, trigger_value |-> extras[i].value,
         param_key |-> rule.param_key, param_data |-> rule.param_data,
         extras |-> DictSet(DictPop(extras, extras[i].key),
                            rule.trigger_key, rule.trigger_value)]]

RECURSIVE NewRules(_, _, _)
NewRules(rs, all, i) ==
    IF i > Len(all) THEN <<>>
    ELSE (IF all[i].extras # 0 THEN Duplicates(all[i], rs.heap[all[i].extras])
          ELSE <<>>) \o NewRules(rs, all, i + 1)

\* a rule with the extras dict it refers to put in its place
Resolve(rs, rule) ==
    [rule EXCEPT !.extras = IF rule.extras = 0 THEN NoExtras
                            ELSE [none |-> FALSE, items |-> rs.heap[rule.extras]]]

RECURSIVE AddRules(_, _, _)
AddRules(rules, new, i) ==
    IF i > Len(new) THEN rules
    ELSE AddRules(AddRule(rules, new[i].trigger_key, new[i]), new, i + 1)

\* HonRuleSet._duplicate_for_extra_conditions; the result holds each rule
\* with its extras as they are when patch() runs, after which nothing
\* writes to them.  The derived rules are appended key by key, in the order
\* the keys first appear.
Duplicate(rs) ==
    LET new == NewRules(rs, AllRules(rs.rules), 1)
        resolved == [i \in 1..Len(rs.rules) |->
                        [key |-> rs.rules[i].key,
                         list |-> [j \in 1..Len(rs.rules[i].list) |->
                                      Resolve(rs, rs.rules[i].list[j])]]]
    IN AddRules(resolved,
                [i \in 1..Len(new) |->
                    [new[i] EXCEPT !.extras = [none |-> FALSE, items |-> @]]], 1)

(***************************************************************************)
(* pyhon/commands.py: HonCommand.__init__.  A command schema is the list   *)
(* of its parameter leaves in order, each [name, group, attributes, rule]: *)
(* rule is the dict under fixedValue of a leaf of category "rule".  The    *)
(* state of a construction is cs = [params, fired, err, order, rules,      *)
(* data]: order lists the keys of _parameters in insertion order.          *)
(***************************************************************************)
PyDict == [t |-> "dict"]

S_rule == <<"r", "u", "l", "e">>

S_range == <<"r", "a", "n", "g", "e">>

S_enum == <<"e", "n", "u", "m">>

S_fixed == <<"f", "i", "x", "e", "d">>

RECURSIVE CountCallbacks(_)
CountCallbacks(triggers) ==
    IF triggers = <<>> THEN 0
    ELSE Len(Head(triggers).cbs) + CountCallbacks(Tail(triggers))

TotalCallbacks(ps) ==
    LET RECURSIVE Sum(_)
        Sum(keys) == IF keys = {} THEN 0
                     ELSE LET k == CHOOSE x \in keys : TRUE
                          IN CountCallbacks(ps[k]._triggers) + Sum(keys \ {k})
    IN Sum(DOMAIN ps)

S_PROGRAM == <<"P", "R", "O", "G", "R", "A", "M">>

\* HonCommandLoader._clean_name
CleanName(category) ==
    IF Contains(category, S_PROGRAM) THEN Lower(LastPart(category, "."))
    ELSE category

\* a HonCommand under construction: self is its identity, _categories the
\* identity of the categories dict it was given (0 for None)
EmptyCommand ==
    [params |-> <<>>, fired |-> <<>>, err |-> "none", order |-> <<>>,
     rules |-> <<>>, data |-> {},
     self |-> 0, _category_name |-> <<>>, _categories |-> 0]

\* ProgramParameter.__init__
ProgramParameter(key, command, group) ==
    [BlankParameter("program", key, NoAttributes, group)
        EXCEPT !._value = PyStr(IF Contains(command._category_name, S_PROGRAM)
                                THEN Lower(LastPart(command._category_name, "."))
                                ELSE command._category_name),
               !._command = command.self,
               !._programs = command._categories]

\* a command that refuses a leaf whose typology it does not know
CreateParametersStrict(cs, leaf) ==
    IF leaf.attributes.typology \in {PyStr(S_range), PyStr(S_enum), PyStr(S_fixed)}
    THEN [cs EXCEPT !.params = (leaf.name :> FixedParameter(leaf.name, leaf.attributes,
                                                            leaf.group)) @@ @,
                    !.order = IF InSeq(leaf.name, @) THEN @ ELSE Append(@, leaf.name)]
    ELSE Raise(cs, "ValueError")

\* HonCommand._create_parameters
CreateParameters(cs, leaf) ==
    LET data == leaf.attributes
        rs == HonRuleSet(leaf.rule)
        cs1 == IF data.category = PyStr(S_rule) /\ data.fixedValue = PyDict
               THEN IF Failed(rs) THEN Raise(cs, rs.err)
                    ELSE [cs EXCEPT !.rules = Append(@, rs)]
               ELSE cs
        made == CASE data.typology = PyStr(S_range) ->
                        RangeParameter(leaf.name, data, leaf.group)
                  [] data.typology = PyStr(S_enum) ->
                        EnumParameter(leaf.name, data, leaf.group)
                  [] OTHER -> FixedParameter(leaf.name, data, leaf.group)
    IN IF Failed(cs1) THEN cs1
       ELSE IF data.typology \in {PyStr(S_range), PyStr(S_enum), PyStr(S_fixed)}
       THEN LET cs2 == [cs1 EXCEPT
                           !.params = (leaf.name :> made) @@ @,
                           !.order = IF InSeq(leaf.name, @) THEN @
                                     ELSE Append(@, leaf.name)]
                name == IF Contains(cs._category_name, S_PROGRAM) THEN "program"
                        ELSE "category"
            IN IF cs._category_name # <<>>
               THEN [cs2 EXCEPT
                        !.params = (name :> ProgramParameter(name, cs, "custom")) @@ @,
                        !.order = IF InSeq(name, @) THEN @ ELSE Append(@, name)]
               ELSE cs2
       ELSE [cs1 EXCEPT !.data = @ \cup {leaf.name}]

RECURSIVE AddTriggers(_, _, _, _)
AddTriggers(cs, name, list, i) ==
    IF Failed(cs) \/ i > Len(list) THEN cs
    ELSE AddTriggers(AddTrigger(cs, name, list[i].trigger_value,
                                [func |-> "apply", rule |-> list[i],
                                 id |-> TotalCallbacks(cs.params) + 1], 0),
                     name, list, i + 1)

RECURSIVE PatchParameters(_, _, _)
PatchParameters(cs, rules, i) ==
    IF Failed(cs) \/ i > Len(cs.order) THEN cs
    ELSE LET name == cs.order[i]
         IN IF \E k \in 1..Len(rules) : rules[k].key = name
            THEN PatchParameters(
                     AddTriggers(cs, name,
                                 rules[CHOOSE k \in 1..Len(rules) : rules[k].key = name].list,
                                 1),
                     rules, i + 1)
            ELSE PatchParameters(cs, rules, i + 1)

\* HonRuleSet.patch
Patch(cs, rs) == PatchParameters(cs, Duplicate(rs), 1)

RECURSIVE CreateAll(_, _, _)
CreateAll(cs, schema, i) ==
    IF Failed(cs) \/ i > Len(schema) THEN cs
    ELSE CreateAll(CreateParameters(cs, schema[i]), schema, i + 1)

RECURSIVE PatchAll(_, _)
PatchAll(cs, i) ==
    IF Failed(cs) \/ i > Len(cs.rules) THEN cs
    ELSE PatchAll(Patch(cs, cs.rules[i]), i + 1)

\* a load that patches each rule set as soon as its leaf is read
RECURSIVE LoadParametersOnePhase(_, _, _)
LoadParametersOnePhase(cs, schema, i) ==
    IF Failed(cs) \/ i > Len(schema) THEN cs
    ELSE LoadParametersOnePhase(
             PatchAll(CreateParameters(cs, schema[i]), Len(cs.rules) + 1), schema, i + 1)

LoadParametersEarly(cs, schema) == LoadParametersOnePhase(cs, schema, 1)

\* HonCommand._load_parameters
LoadParameters(cs, schema) == PatchAll(CreateAll(cs, schema, 1), 1)

(***************************************************************************)
(* The calls a caller makes on a command's parameters.  Each records the   *)
(* call, the parameters before it, the callbacks it invoked and how it     *)
(* ended.                                                                  *)
(***************************************************************************)
Finish(st, call) ==
    /\ params' = st.params
    /\ fired' = st.fired
    /\ outcome' = IF Failed(st) THEN st.err ELSE "ok"
    /\ last' = call
    /\ pre' = params
    /\ UNCHANGED hvars

\* DictTool.__data = None
NoData == [loaded |-> FALSE, items |-> <<>>]

\* no Authenticator
NoTokens == [access_token |-> "", id_token |-> "", refresh_token |-> "",
             created_at |-> 0]

\* no appliance: the parameters stand alone
NoAppliance ==
    /\ objects = <<>>
    /\ dicts = <<>>
    /\ maps = <<>>
    /\ commands = <<>>
    /\ _attributes = <<>>
    /\ now = 0
    /\ __data = NoData
    /\ _tokens = NoTokens

NoCall == [op |-> "none", key |-> "", arg |-> PyNone]

\* parameter.value = v
Assign(key, v) ==
    Finish(SetValue(Begin(params), key, v, 0), [op |-> "set", key |-> key, arg |-> v])

\* parameter.apply_fixed_value(v)
ForceFixed(key, v) ==
    Finish(ApplyFixedValue(Begin(params), key, v, 0),
           [op |-> "apply_fixed_value", key |-> key, arg |-> v])

(***************************************************************************)
(* SpecRange: one HonParameterRange built from a schema leaf, then any     *)
(* sequence of value assignments and apply_fixed_value calls.              *)
(***************************************************************************)
MaxNum == 3

Numeral(x) == PyStr(Str(x))

\* what a caller may assign: ints, floats, numerals with "." or ",", and a
\* string that is no number
RangeInputs ==
    {PyInt(k) : k \in 0..MaxNum}
        \cup {PyFloat(h) : h \in 0..(2 * MaxNum)}
        \cup {Numeral(PyInt(k)) : k \in 0..MaxNum}
        \cup {Numeral(PyFloat(h)) : h \in 0..(2 * MaxNum)}
        \cup {PyStr(<<"1", ",", "5">>), PyStr(<<"x">>)}

RangeSchemas ==
    {[NoAttributes EXCEPT !.minimumValue = lo, !.maximumValue = hi,
                          !.incrementValue = st] :
        lo \in {Numeral(PyInt(0)), Numeral(PyInt(1)), Numeral(PyFloat(1))},
        hi \in {Numeral(PyInt(MaxNum - 1)), Numeral(PyInt(MaxNum))},
        st \in {PyNone, Numeral(PyFloat(1)), Numeral(PyInt(1)), Numeral(PyInt(2))}}

RangeInit ==
    /\ \E a \in RangeSchemas :
           params = [k \in {"tempLevel"} |-> RangeParameter(k, a, "parameters")]
    /\ fired = <<>>
    /\ outcome = "ok"
    /\ last = NoCall
    /\ pre = params
    /\ NoAppliance

RangeAssign == \E v \in RangeInputs : Assign("tempLevel", v)

RangeForce == \E v \in RangeInputs : ForceFixed("tempLevel", v)

RangeNext == RangeAssign \/ RangeForce

SpecRange == RangeInit /\ [][RangeNext]_vars

\* the number a value denotes, in halves ("1,5" denotes 1.5)
IsNumber(v) ==
    \/ v.t \in {"int", "float"}
    \/ v.t = "str" /\ (IsIntLiteral(v.s) \/ IsFloatLiteral(Replace(v.s, ",", ".")))

NumberOf(v) ==
    CASE v.t \in {"int", "float"} -> v.h
      [] IsIntLiteral(v.s) -> 2 * ParseDigits(v.s)
      [] OTHER -> FloatLiteralHalves(Replace(v.s, ",", "."))

\* min <= v <= max and (v - min) is an integer multiple of step
OnGrid(p, v) ==
    /\ IsNumber(v)
    /\ p.min <= NumberOf(v)
    /\ NumberOf(v) <= p.max
    /\ (NumberOf(v) - p.min) % Step(p) = 0

\* C1: a value assignment to a RangeParameter succeeds only if min <= v <= max
\* and (v - min) is a multiple of step, and then value = v; every other
\* assignment raises a validation error and leaves value as it was.
C1_SetterValidates ==
    (last.op = "set" /\ pre[last.key].kind = "range") =>
        LET p0 == pre[last.key]
            p1 == params[last.key]
        IN /\ outcome = "ok" =>
                (OnGrid(p0, last.arg) /\ Value(p1).h = NumberOf(last.arg))
           /\ ~OnGrid(p0, last.arg) =>
                (outcome = "ValueError" /\ Value(p1) = Value(p0))


(***************************************************************************)
(* SpecEnum: one EnumParameter built from a schema leaf, then any sequence *)
(* of value assignments, apply_fixed_value and apply_rule calls.           *)
(***************************************************************************)
MaxEnum == 2

\* raw tokens of a schema: digits, an upper-case token, a bracketed list
RawTokens ==
    {PyStr(<<"1">>), PyStr(<<"2">>), PyStr(<<"A">>),
     PyStr(<<"[", "b", "|", "c", "]">>)}

EnumInputs ==
    RawTokens \cup {PyStr(clean_value(t)) : t \in RawTokens}
              \cup {PyStr(<<"0">>), PyInt(1)}

EnumValueLists ==
    UNION {[1..n -> RawTokens] : n \in 1..MaxEnum}

EnumSchemas ==
    {[NoAttributes EXCEPT !.enumValues = vs, !.hasEnumValues = TRUE,
                          !.defaultValue = df] :
        vs \in EnumValueLists, df \in RawTokens \cup {PyNone}}

\* the payloads of enum rules: new enumValues and / or a new defaultValue
EnumRules ==
    {[trigger_key |-> "program", trigger_value |-> <<"1">>, param_key |-> "mode",
      param_data |-> [NoParamData EXCEPT !.typology = PyStr(<<"e", "n", "u", "m">>),
                                         !.enumValues = ev, !.defaultValue = df],
      extras |-> NoExtras] :
        ev \in {PyNone, PyStr(<<"1", "|", "2">>), PyStr(<<"A">>)},
        df \in {PyNone, PyStr(<<"1">>), PyStr(<<"A">>)}}

EnumInit ==
    /\ \E a \in EnumSchemas :
           params = [k \in {"mode"} |-> EnumParameter(k, a, "parameters")]
    /\ fired = <<>>
    /\ outcome = "ok"
    /\ last = NoCall
    /\ pre = params
    /\ NoAppliance

EnumAssign == \E v \in EnumInputs : Assign("mode", v)

EnumForce == \E v \in EnumInputs : ForceFixed("mode", v)

\* parameter.apply_rule(rule)
EnumApplyRule ==
    \E rule \in EnumRules :
        Finish(ApplyRule(Begin(params), "mode", rule, 0),
               [op |-> "apply_rule", key |-> "mode", arg |-> rule.param_data.defaultValue])

EnumNext == EnumAssign \/ EnumForce \/ EnumApplyRule

SpecEnum == EnumInit /\ [][EnumNext]_vars

\* value is one of values
ValueAllowed(p) == InSeq(Str(Value(p)), Values(p))

\* C2: an EnumParameter's value is a member of values right after
\* construction (with or without a defaultValue) and after every successful
\* assignment; assigning a token that is not in values raises and leaves
\* value unchanged.
C2_EnumValueInValues ==
    LET p1 == params["mode"]
        p0 == pre["mode"]
    IN /\ p1.kind = "enum"
       /\ last.op = "none" => ValueAllowed(p1)
       /\ (last.op = "set" /\ outcome = "ok") => ValueAllowed(p1)
       /\ (last.op = "set" /\ ~InSeq(Str(last.arg), Values(p0))) =>
              (outcome = "ValueError" /\ Value(p1) = Value(p0))


(***************************************************************************)
(* SpecTrigger: one parameter of any variant, on which callbacks are       *)
(* registered with add_trigger and values are assigned.  The callbacks are *)
(* probes: an invocation is recorded in fired and changes nothing else.    *)
(***************************************************************************)
MaxTriggers == 3

TriggerTokens == {<<"1">>, <<"a">>, <<"A">>}

TriggerInputs ==
    {PyStr(t) : t \in TriggerTokens} \cup {PyInt(1), PyInt(2), PyStr(<<"2">>)}

TriggerParameters ==
    {FixedParameter("mode", [NoAttributes EXCEPT !.fixedValue = v], "parameters") :
        v \in {PyNone, PyStr(<<"1">>), PyStr(<<"A">>)}}
    \cup
    {RangeParameter("mode", [NoAttributes EXCEPT !.minimumValue = Numeral(PyInt(1)),
                                                 !.maximumValue = Numeral(PyInt(2))],
                    "parameters")}
    \cup
    {EnumParameter("mode", [NoAttributes EXCEPT !.enumValues = vs,
                                                !.hasEnumValues = TRUE,
                                                !.defaultValue = df],
                   "parameters") :
        vs \in {<<PyStr(<<"1">>), PyStr(<<"A">>)>>}, df \in {PyStr(<<"1">>), PyStr(<<"A">>)}}

Probe(id) ==
    [func |-> "probe", id |-> id,
     rule |-> [trigger_key |-> "mode", trigger_value |-> <<>>, param_key |-> "",
               param_data |-> NoParamData, extras |-> NoExtras]]

TriggerInit ==
    /\ \E p \in TriggerParameters : params = [k \in {"mode"} |-> p]
    /\ fired = <<>>
    /\ outcome = "ok"
    /\ last = NoCall
    /\ pre = params
    /\ NoAppliance

\* parameter.add_trigger(token, effect, rule)
TriggerAdd ==
    /\ CountCallbacks(params["mode"]._triggers) < MaxTriggers
    /\ \E token \in TriggerTokens :
           Finish(AddTrigger(Begin(params), "mode", token,
                             Probe(CountCallbacks(params["mode"]._triggers) + 1), 0),
                  [op |-> "add_trigger", key |-> "mode", arg |-> PyStr(token)])

TriggerAssign == \E v \in TriggerInputs : Assign("mode", v)

TriggerNext == TriggerAdd \/ TriggerAssign

SpecTrigger == TriggerInit /\ [][TriggerNext]_vars

\* the value setter's own validation accepts v
Accepted(p, v) ==
    CASE p.kind = "range" -> str_to_float(v).ok /\ RangeAccepts(p, str_to_float(v).val)
      [] p.kind = "enum" -> EnumAccepts(p, v)
      [] OTHER -> TRUE

\* the ids of the callbacks registered under the tokens that satisfy Match,
\* in registration order (ids are handed out in registration order)
RECURSIVE IdsInOrder(_, _)
IdsInOrder(ids, n) ==
    IF n > MaxTriggers + 1 THEN <<>>
    ELSE (IF n \in ids THEN <<n>> ELSE <<>>) \o IdsInOrder(ids, n + 1)

RegisteredFor(p, token) ==
    IdsInOrder(UNION {{p._triggers[i].cbs[j].id : j \in 1..Len(p._triggers[i].cbs)} :
                         i \in {k \in 1..Len(p._triggers) :
                                   Lower(p._triggers[k].token) = Lower(token)}}, 1)

FiredIds == [i \in 1..Len(fired) |-> fired[i].id]

\* C3: each successful assignment of v invokes every trigger registered for
\* a token equal to v ignoring letter case exactly once, in registration
\* order, before the setter returns, also when v or the token contains
\* upper-case letters (and also when v is the value already held).
C3_AssignFiresTriggers ==
    (last.op = "set" /\ Accepted(pre[last.key], last.arg)) =>
        /\ outcome = "ok"
        /\ FiredIds = RegisteredFor(pre[last.key], Str(Value(params[last.key])))

\* C4: add_trigger(v, effect, rule) invokes effect exactly once when the
\* parameter's current value, written as a string, equals v, for Fixed,
\* Range and Enum alike, and does not invoke it otherwise; either way the
\* trigger is stored.
C4_EagerTrigger ==
    last.op = "add_trigger" =>
        LET p0 == pre[last.key]
            p1 == params[last.key]
            token == last.arg.s
            id == CountCallbacks(p0._triggers) + 1
        IN /\ Str(Value(p0)) = token => FiredIds = <<id>>
           /\ Str(Value(p0)) # token => FiredIds = <<>>
           /\ \E i \in 1..Len(p1._triggers) :
                  /\ p1._triggers[i].token = token
                  /\ p1._triggers[i].cbs[Len(p1._triggers[i].cbs)].id = id


(***************************************************************************)
(* SpecRules: a command with the parameters mode and opt (Enum) and        *)
(* tempLevel (Range) and one rule leaf, constructed from its schema, then  *)
(* any sequence of value assignments.  A construction that raises leaves   *)
(* no command to call.                                                     *)
(***************************************************************************)
ParameterLeaf(name, attributes) ==
    [name |-> name, group |-> "parameters", attributes |-> attributes,
     rule |-> Dict(<<>>)]

RuleLeaf(name, rule) ==
    [name |-> name, group |-> "parameters",
     attributes |-> [NoAttributes EXCEPT !.typology = PyStr(S_fixed),
                                         !.category = PyStr(S_rule),
                                         !.fixedValue = PyDict],
     rule |-> rule]

EnumLeaf(name, values, default) ==
    ParameterLeaf(name, [NoAttributes EXCEPT !.typology = PyStr(S_enum),
                                             !.enumValues = values,
                                             !.hasEnumValues = TRUE,
                                             !.defaultValue = default])

RangeLeaf(name, lo, hi, step) ==
    ParameterLeaf(name, [NoAttributes EXCEPT !.typology = PyStr(S_range),
                                             !.minimumValue = lo,
                                             !.maximumValue = hi,
                                             !.incrementValue = step])

Forty == PyStr(<<"4", "0">>)

\* {"tempLevel": {"@mode": {"1": "40"}}}
RuleModeForcesTemp ==
    Dict(<<[k |-> <<"tempLevel">>, v |->
        Dict(<<[k |-> <<"@", "mode">>, v |->
            Dict(<<[k |-> <<"1">>, v |-> Leaf(Forty)]>>)]>>)]>>)

\* {"tempLevel": {"@mode": {"1": {"@opt": {"1": "40"}}}}}
RuleModeAndOptForceTemp ==
    Dict(<<[k |-> <<"tempLevel">>, v |->
        Dict(<<[k |-> <<"@", "mode">>, v |->
            Dict(<<[k |-> <<"1">>, v |->
                Dict(<<[k |-> <<"@", "opt">>, v |->
                    Dict(<<[k |-> <<"1">>, v |-> Leaf(Forty)]>>)]>>)]>>)]>>)]>>)

RuleDicts == {RuleModeForcesTemp, RuleModeAndOptForceTemp}

Number(digits) == PyStr(digits)

\* (minimumValue, maximumValue) of tempLevel
TempBounds ==
    {<<Number(<<"3", "0">>), Number(<<"3", "9">>)>>,
     <<Number(<<"3", "0">>), Number(<<"4", "5">>)>>,
     <<Number(<<"3", "9">>), Number(<<"3", "9">>)>>,
     <<Number(<<"3", "9">>), Number(<<"4", "5">>)>>,
     <<Number(<<"4", "1">>), Number(<<"4", "5">>)>>}

TempSteps == {PyNone, Number(<<"2">>), Number(<<"5">>)}

RuleSchemas ==
    {<<EnumLeaf("mode", <<PyStr(<<"0">>), PyStr(<<"1">>), PyStr(<<"2">>)>>, PyStr(<<"0">>)),
       EnumLeaf("opt", <<PyStr(<<"0">>), PyStr(<<"1">>)>>, PyStr(<<"0">>)),
       RangeLeaf("tempLevel", b[1], b[2], step),
       RuleLeaf("rules", rule)>> :
        b \in TempBounds, step \in TempSteps, rule \in RuleDicts}

RulesInputs ==
    [mode |-> {PyStr(<<"0">>), PyStr(<<"1">>), PyStr(<<"2">>)},
     opt |-> {PyStr(<<"0">>), PyStr(<<"1">>)},
     tempLevel |-> {Number(<<"3", "9">>), Forty, Number(<<"4", "5">>)}]

RulesInit ==
    /\ \E schema \in RuleSchemas :
           LET cs == LoadParameters(EmptyCommand, schema)
           IN /\ params = cs.params
              /\ fired = cs.fired
              /\ outcome = IF Failed(cs) THEN cs.err ELSE "ok"
    /\ last = [op |-> "construct", key |-> "", arg |-> PyNone]
    /\ pre = params
    /\ NoAppliance

Constructed == last.op = "construct" => outcome = "ok"

RulesAssign ==
    /\ Constructed
    /\ \E key \in DOMAIN RulesInputs : \E v \in RulesInputs[key] : Assign(key, v)

RulesNext == RulesAssign

SpecRules == RulesInit /\ [][RulesNext]_vars


\* the callback with the given id among those registered on a parameter
CallbackOf(p, id) ==
    CHOOSE cb \in UNION {{p._triggers[i].cbs[j] : j \in 1..Len(p._triggers[i].cbs)} :
                            i \in 1..Len(p._triggers)} : cb.id = id

\* every (key, value) pair of the rule's extras equals the current value of
\* the parameter named key
ExtrasHold(ps, rule) ==
    \A i \in 1..Len(rule.extras.items) :
        /\ rule.extras.items[i].key \in DOMAIN ps
        /\ Str(Value(ps[rule.extras.items[i].key])) = rule.extras.items[i].value

\* the rule's fixed value has been applied to its target
EffectApplied(ps, rule) ==
    Str(Value(ps[rule.param_key])) = Str(rule.param_data.fixedValue)

\* C5: a rule with extras applies its effect when fired if and only if every
\* (key, value) pair of extras equals the current value of the parameter
\* named key in the same command; when some condition does not match, the
\* target parameter is left unchanged and no error is raised.
C5_ExtrasGuardEffect ==
    (last.op = "set" /\ last.key \in {"mode", "opt"}) =>
        \A i \in 1..Len(fired) :
            LET rule == CallbackOf(pre[fired[i].on], fired[i].id).rule
            IN ~rule.extras.none =>
                   IF ExtrasHold(params, rule)
                   THEN EffectApplied(params, rule) \/ outcome # "ok"
                   ELSE /\ params[rule.param_key] = pre[rule.param_key]
                        /\ outcome = "ok"

\* the rule 'when mode = "1" set tempLevel to 40' is wired on the command
FixedRuleWired(ps) ==
    \E i \in 1..Len(ps["mode"]._triggers) :
        /\ ps["mode"]._triggers[i].token = <<"1">>
        /\ \E j \in 1..Len(ps["mode"]._triggers[i].cbs) :
               LET rule == ps["mode"]._triggers[i].cbs[j].rule
               IN /\ rule.extras.none
                  /\ rule.param_key = "tempLevel"
                  /\ rule.param_data.fixedValue = Forty

\* C6: with the fixed-value rule 'when mode = "1" set tempLevel to 40' wired
\* on a command whose tempLevel is a RangeParameter, assigning mode = "1"
\* returns normally and leaves tempLevel.value equal to 40, for every min,
\* max and step of tempLevel.
C6_FixedRuleForcesRange ==
    (/\ last = [op |-> "set", key |-> "mode", arg |-> PyStr(<<"1">>)]
     /\ FixedRuleWired(pre)) =>
        /\ outcome = "ok"
        /\ IsNumber(Value(params["tempLevel"]))
        /\ NumberOf(Value(params["tempLevel"])) = 2 * 40


(***************************************************************************)
(* Commands, categories and the command loader (pyhon/commands.py,         *)
(* pyhon/parameter/program.py, pyhon/command_loader.py).  Objects live in  *)
(* heaps and are named by their index, so that two references to one       *)
(* object, as copy() leaves them, stay one object.  A dict that keeps its  *)
(* insertion order is a sequence of [key, value] entries.                  *)
(***************************************************************************)
HasEntry(d, key) == \E i \in 1..Len(d) : d[i].key = key

EntryOf(d, key) == d[CHOOSE i \in 1..Len(d) : d[i].key = key].value

KeysOf(d) == [i \in 1..Len(d) |-> d[i].key]

ValuesOf(d) == {d[i].value : i \in 1..Len(d)}

\* the characters of the model in code point order
CodePoints ==
    <<",", ".">> \o Digits \o <<"@">> \o UpperCase \o <<"[", "]", "_">> \o LowerCase
        \o <<"|">>

Ord(c) == CHOOSE i \in 1..Len(CodePoints) : CodePoints[i] = c

\* a < b for str
StrLess(a, b) ==
    \E i \in 1..(Len(b)) :
        /\ \A k \in 1..(i - 1) : k <= Len(a) /\ a[k] = b[k]
        /\ (i > Len(a) \/ Ord(a[i]) < Ord(b[i]))

RECURSIVE Insert(_, _)
Insert(x, sorted) ==
    IF sorted = <<>> THEN <<x>>
    ELSE IF StrLess(x, Head(sorted)) THEN <<x>> \o sorted
    ELSE <<Head(sorted)>> \o Insert(x, Tail(sorted))

\* sorted(list of str)
RECURSIVE Sorted(_)
Sorted(list) == IF list = <<>> THEN <<>> ELSE Insert(Head(list), Sorted(Tail(list)))

S_iot_recipe == <<"i", "o", "t", "_", "r", "e", "c", "i", "p", "e">>

S_iot_guided == <<"i", "o", "t", "_", "g", "u", "i", "d", "e", "d">>

\* ProgramParameter._FILTER
FILTER == {S_iot_recipe, S_iot_guided}

\* HonCommand.categories (getter): a command without categories answers with
\* a fresh dict that holds only itself
Categories(ld, id) ==
    IF ld.objects[id]._categories = 0 THEN <<[key |-> <<"_">>, value |-> id]>>
    ELSE ld.maps[ld.objects[id]._categories]

\* HonCommand.parameters
Parameters(ld, id) == ld.dicts[ld.objects[id]._parameters]

\* ProgramParameter.values (getter)
ProgramValues(ld, p) ==
    Sorted(SelectSeq(KeysOf(ld.maps[p._programs]),
                     LAMBDA v : \A f \in FILTER : ~Contains(v, f)))

\* HonCommand.category (setter)
SetCategory(ld, id, category) ==
    IF HasEntry(Categories(ld, id), category)
    THEN [ld EXCEPT !.commands = DictSet(@, ld.objects[id]._name,
                                         EntryOf(Categories(ld, id), category))]
    ELSE ld

\* ProgramParameter.value (setter)
ProgramSetValue(ld, p, v) ==
    IF v.t = "str" /\ InSeq(v.s, ProgramValues(ld, p))
    THEN SetCategory(ld, p._command, v.s)
    ELSE Raise(ld, "ValueError")

\* parameter.value = v for the parameter under key of command id
SetParameterValue(ld, id, key, v) ==
    LET ref == ld.objects[id]._parameters
        p == ld.dicts[ref][key]
    IN IF Failed(ld) THEN ld
       ELSE IF p.kind = "program" THEN ProgramSetValue(ld, p, v)
       ELSE LET st == SetValue(Begin(ld.dicts[ref]), key, v, 0)
            IN [ld EXCEPT !.dicts[ref] = st.params, !.err = st.err]


\* the payload of the API: a dict that is a command schema, a dict of
\* further dicts, or a value that is no dict
CommandData(leaves) == [kind |-> "command", leaves |-> leaves, items |-> <<>>]

CategoriesData(items) == [kind |-> "categories", leaves |-> <<>>, items |-> items]

NoDict == [kind |-> "str", leaves |-> <<>>, items |-> <<>>]

\* a HonCommandLoader at work: the heaps, the appliance's commands dict, the
\* loader's own _commands, the commands parsed so far, the exception in
\* flight and the value returned
NewLoader ==
    [objects |-> objects, dicts |-> dicts, maps |-> maps, commands |-> commands,
     attributes |-> _attributes,
     _commands |-> <<>>, parsed |-> <<>>, err |-> "none", ret |-> 0]

S_setParameters == <<"s", "e", "t", "P", "a", "r", "a", "m", "e", "t", "e", "r", "s">>

\* HonCommand.__init__; origin is 0 for a constructed object and names, for a
\* copy, the object it was copied from (the program keeps no such field);
\* _order lists the keys of _parameters in insertion order and _data holds
\* the keys of the additional data
NewObject(ld, name, category_name, categories, cs) ==
    IF Failed(cs) THEN Raise(ld, cs.err)
    ELSE [ld EXCEPT !.objects = Append(@, [_name |-> name,
                                            _category_name |-> category_name,
                                            _categories |-> categories,
                                            _parameters |-> Len(ld.dicts) + 1,
                                            _order |-> cs.order,
                                            _data |-> cs.data,
                                            origin |-> 0]),
                    !.dicts = Append(@, cs.params),
                    !.ret = Len(ld.objects) + 1]

HonCommand(ld, name, data, category_name, categories) ==
    NewObject(ld, name, category_name, categories,
              LoadParameters([EmptyCommand EXCEPT !.self = Len(ld.objects) + 1,
                                                  !._category_name = category_name,
                                                  !._categories = categories],
                             data.leaves))

\* the end of _parse_categories: setParameters should be at first place
ActiveCategory(ld, ref) ==
    IF Failed(ld) THEN ld
    ELSE IF ld.maps[ref] # <<>>
    THEN [ld EXCEPT !.ret = IF HasEntry(ld.maps[ref], S_setParameters)
                            THEN EntryOf(ld.maps[ref], S_setParameters)
                            ELSE ld.maps[ref][1].value]
    ELSE [ld EXCEPT !.ret = 0]

\* categories[self._clean_name(category)] = command, if there is a command
KeepCategory(ld, category, ref) ==
    IF ~Failed(ld) /\ ld.ret # 0
    THEN [ld EXCEPT !.maps[ref] = DictSet(@, CleanName(category), ld.ret)]
    ELSE ld

RECURSIVE ParseCommand(_, _, _, _, _)
RECURSIVE ParseCategories(_, _, _)
RECURSIVE ParseCategoryItems(_, _, _, _, _)

\* HonCommandLoader._parse_command; ret = 0 stands for None
ParseCommand(ld, data, command_name, categories, category_name) ==
    IF Failed(ld) THEN ld
    ELSE CASE data.kind = "command" ->
                  HonCommand(ld, command_name, data, category_name, categories)
           [] data.kind = "categories" -> ParseCategories(ld, data, command_name)
           [] OTHER -> [ld EXCEPT !.ret = 0]

\* HonCommandLoader._parse_categories
ParseCategories(ld, data, command_name) ==
    ActiveCategory(ParseCategoryItems([ld EXCEPT !.maps = Append(@, <<>>)],
                                      data.items, 1, command_name, Len(ld.maps) + 1),
                   Len(ld.maps) + 1)

\* the loop of _parse_categories
ParseCategoryItems(ld, items, i, command_name, ref) ==
    IF Failed(ld) \/ i > Len(items) THEN ld
    ELSE ParseCategoryItems(
             KeepCategory(ParseCommand(ld, items[i].value, command_name, ref, items[i].key),
                          items[i].key, ref),
             items, i + 1, command_name, ref)

\* command.name: command ... if command
KeepCommand(ld, command_name) ==
    IF ~Failed(ld) /\ ld.ret # 0
    THEN [ld EXCEPT !.parsed = DictSet(@, command_name, ld.ret)]
    ELSE ld

\* the dict comprehension of parse_commands, assigned to self._commands
\* when it is complete
RECURSIVE ParseAll(_, _, _)
ParseAll(ld, api, i) ==
    IF Failed(ld) THEN ld
    ELSE IF i > Len(api) THEN [ld EXCEPT !._commands = ld.parsed]
    ELSE ParseAll(KeepCommand(ParseCommand(ld, api[i].value, api[i].key, 0, <<>>),
                              api[i].key),
                  api, i + 1)

\* HonCommandLoader.commands: with nothing parsed the property parses again,
\* and parse_commands reads the property again, without end
LoaderCommands(ld) ==
    IF Failed(ld) THEN ld
    ELSE IF Len(ld._commands) = 0 THEN Raise(ld, "RecursionError")
    ELSE ld


\* a favourite of the API: {"favouriteName": name, "command": {"commandName":
\* ..., "programName": ..., and the overriding values}}
Favourite(name, command_name, program_name, overrides) ==
    [favouriteName |-> name,
     command |-> <<[key |-> "commandName", value |-> PyStr(<<command_name>>)],
                   [key |-> "programName", value |-> PyStr(program_name)]>>
                 \o overrides,
     commandName |-> command_name,
     programName |-> program_name]

\* HonCommand.update: every entry of the favourite's dicts whose key names a
\* parameter is assigned through the parameter's setter
RECURSIVE Update(_, _, _, _)
Update(ld, id, data, i) ==
    IF Failed(ld) \/ i > Len(data) THEN ld
    ELSE Update(IF data[i].key \in DOMAIN Parameters(ld, id)
                THEN SetParameterValue(ld, id, data[i].key, data[i].value)
                ELSE ld,
                id, data, i + 1)

\* HonCommand.set_as_favourite
SetAsFavourite(ld, id) ==
    IF Failed(ld) THEN ld
    ELSE [ld EXCEPT !.dicts[ld.objects[id]._parameters] =
             ("favourite" :> FixedParameter("favourite",
                                            [NoAttributes EXCEPT !.fixedValue = PyStr(<<"1">>)],
                                            "custom")) @@ @]

\* HonCommandLoader._update_program_categories
UpdateProgramCategories(ld, command_name, name, base_command) ==
    IF Failed(ld) THEN ld
    ELSE IF "program" \notin DOMAIN Parameters(ld, base_command)
    THEN Raise(ld, "KeyError")
    ELSE LET program == Parameters(ld, base_command)["program"]
             ld1 == IF program.kind = "program"
                    THEN ProgramSetValue(ld, program, PyStr(name))
                    ELSE ld
             active == EntryOf(ld._commands, command_name)
         IN IF Failed(ld1) THEN ld1
            ELSE IF ld1.objects[active]._categories = 0 THEN ld1
            ELSE [ld1 EXCEPT !.maps[ld1.objects[active]._categories] =
                     DictSet(@, name, base_command)]

\* a loader that takes a favourite without base for an error
AddFavouriteStrict(ld, favourite) ==
    IF /\ HasEntry(ld._commands, favourite.commandName)
       /\ ~HasEntry(Categories(ld, EntryOf(ld._commands, favourite.commandName)),
                    CleanName(favourite.programName))
    THEN Raise(ld, "KeyError")
    ELSE ld

\* one turn of the loop of _add_favourites, with _get_favourite_info;
\* copy(base) is a new object with the fields of base
AddFavourite(ld, favourite) ==
    LET ld0 == LoaderCommands(ld)
        program_name == CleanName(favourite.programName)
    IN IF Failed(ld0) THEN ld0
       ELSE IF ~HasEntry(ld._commands, favourite.commandName) THEN Raise(ld, "KeyError")
       ELSE LET categories == Categories(ld, EntryOf(ld._commands, favourite.commandName))
            IN IF ~HasEntry(categories, program_name) THEN ld
               ELSE LET base == EntryOf(categories, program_name)
                        base_command == Len(ld.objects) + 1
                        ld1 == [ld EXCEPT !.objects =
                                   Append(@, [ld.objects[base] EXCEPT !.origin = base])]
                    IN UpdateProgramCategories(
                           SetAsFavourite(Update(ld1, base_command, favourite.command, 1),
                                          base_command),
                           favourite.commandName, favourite.favouriteName, base_command)

\* HonCommandLoader._add_favourites
RECURSIVE AddFavourites(_, _, _)
AddFavourites(ld, favourites, i) ==
    IF Failed(ld) \/ i > Len(favourites) THEN ld
    ELSE AddFavourites(AddFavourite(ld, favourites[i]), favourites, i + 1)

\* an entry of the command history, most recent first: {"command":
\* {"commandName": ..., "parameters": {...}}}; an entry without a command
\* has the name "" and no parameters
HistoryEntry(command_name, parameters) ==
    [commandName |-> command_name, parameters |-> parameters]

\* a lookup that takes the last entry carrying the name instead of the first
GetOldestCommandIndex(history, name) ==
    IF \E i \in 1..Len(history) : history[i].commandName = name
    THEN CHOOSE i \in 1..Len(history) :
             /\ history[i].commandName = name
             /\ \A j \in (i + 1)..Len(history) : history[j].commandName # name
    ELSE 0

\* HonCommandLoader._get_last_command_index: the first index whose entry
\* carries the name, 0 for None
GetLastCommandIndex(history, name) ==
    IF \E i \in 1..Len(history) : history[i].commandName = name
    THEN CHOOSE i \in 1..Len(history) :
             /\ history[i].commandName = name
             /\ \A j \in 1..(i - 1) : history[j].commandName # name
    ELSE 0

\* dict.get(key) on an ordered dict of Python values
DictGet(d, key) == IF HasEntry(d, key) THEN EntryOf(d, key) ELSE PyNone

\* what _set_last_category leaves of the recorded parameters: "program" is
\* popped, and "category" too when no program was recorded
PoppedParameters(parameters) ==
    IF Truthy(DictGet(parameters, "program")) THEN DictPop(parameters, "program")
    ELSE DictPop(DictPop(parameters, "program"), "category")

\* HonCommandLoader._set_last_category: the category setter writes the
\* appliance's commands, and the command handed back is the one the loader
\* holds under the name; ret is that command
SetLastCategory(ld, id, name, parameters) ==
    LET program == DictGet(parameters, "program")
        category == DictGet(parameters, "category")
    IN IF Truthy(program)
       THEN [SetCategory(ld, id, CleanName(program.s))
                EXCEPT !.ret = EntryOf(ld._commands, name)]
       ELSE IF Truthy(category)
       THEN [SetCategory(ld, id, category.s)
                EXCEPT !.ret = EntryOf(ld._commands, name)]
       ELSE [ld EXCEPT !.ret = id]

\* with suppress(ValueError): data.value = parameters.get(key)
Suppressed(ld) == IF ld.err = "ValueError" THEN [ld EXCEPT !.err = "none"] ELSE ld

\* the loop over command.settings of _recover_last_command_states
RECURSIVE ReplayParameters(_, _, _, _)
ReplayParameters(ld, id, parameters, i) ==
    IF Failed(ld) \/ i > Len(ld.objects[id]._order) THEN ld
    ELSE ReplayParameters(
             IF DictGet(parameters, ld.objects[id]._order[i]).t # "none"
             THEN Suppressed(SetParameterValue(ld, id, ld.objects[id]._order[i],
                                               DictGet(parameters,
                                                       ld.objects[id]._order[i])))
             ELSE ld,
             id, parameters, i + 1)

\* the settings loop on the command _set_last_category handed back
ReplayLast(ld, parameters) == ReplayParameters(ld, ld.ret, parameters, 1)

\* one round of the loop over self.commands.items()
RecoverCommand(ld, history, name, id) ==
    IF GetLastCommandIndex(history, name) = 0 THEN ld
    ELSE ReplayLast(SetLastCategory(ld, id, name,
                                    history[GetLastCommandIndex(history, name)].parameters),
                    PoppedParameters(
                        history[GetLastCommandIndex(history, name)].parameters))

\* HonCommandLoader._recover_last_command_states
RECURSIVE RecoverLastCommandStates(_, _, _)
RecoverLastCommandStates(ld, history, i) ==
    IF Failed(ld) \/ i > Len(ld._commands) THEN ld
    ELSE RecoverLastCommandStates(
             RecoverCommand(ld, history, ld._commands[i].key, ld._commands[i].value),
             history, i + 1)

\* HonCommandLoader.parse_commands
ParseCommands(ld, api, history, favourites) ==
    RecoverLastCommandStates(
        LoaderCommands(AddFavourites(ParseAll(ld, api, 1), favourites, 1)),
        history, 1)


(***************************************************************************)
(* SpecLoader: an appliance loads its commands once, from the payload, an  *)
(* empty command history and the favourites of the API, and afterwards     *)
(* callers select categories and assign parameter values on the commands   *)
(* they can reach.  The appliance has no attributes yet, so the            *)
(* sync_params_to_command that ends load_commands finds nothing to copy.   *)
(***************************************************************************)
MaxFavourites == 1

Program(name) == <<"P", "R", "O", "G", "R", "A", "M", "S", ".">> \o name

P_ECO == Program(<<"E", "C", "O">>)

P_WOOL == Program(<<"W", "O", "O", "L">>)

P_NONE == Program(<<"N", "O", "N", "E">>)

P_GUIDED == Program(<<"I", "O", "T", "_", "G", "U", "I", "D", "E", "D">>)

S_custom == <<"c", "u", "s", "t", "o", "m">>

N_eco == <<"e", "c", "o">>

N_wool == <<"w", "o", "o", "l">>

N_my == <<"m", "y">>

\* {"description": ..., "protocolType": ..., "parameters": {"tempLevel":
\* {"typology": "range", "minimumValue": "30", "maximumValue": "60",
\* "incrementValue": "10"}}}
Washing ==
    CommandData(<<RangeLeaf("tempLevel", Number(<<"3", "0">>), Number(<<"6", "0">>),
                            Number(<<"1", "0">>))>>)

Entry(key, value) == [key |-> key, value |-> value]

ApiData ==
    {<<Entry("startProgram", CategoriesData(<<Entry(P_ECO, Washing), Entry(P_WOOL, Washing)>>)),
       Entry("settings", Washing)>>,
     <<Entry("startProgram", CategoriesData(<<Entry(P_WOOL, Washing), Entry(P_ECO, Washing)>>))>>,
     <<Entry("startProgram", CategoriesData(<<Entry(P_ECO, Washing), Entry(P_WOOL, Washing),
                                              Entry(P_GUIDED, Washing)>>))>>,
     <<Entry("startProgram", CategoriesData(<<Entry(P_ECO, Washing)>>)),
       Entry("settings", CategoriesData(<<Entry(S_custom, Washing),
                                          Entry(S_setParameters, Washing)>>))>>,
     <<Entry("startProgram", Washing)>>,
     <<Entry("startProgram", NoDict)>>}

Overrides ==
    {<<>>,
     <<Entry("tempLevel", Forty)>>,
     <<Entry("tempLevel", Number(<<"4", "5">>))>>}

Favourites ==
    {Favourite(name, "startProgram", program_name, overrides) :
        name \in {N_my, N_eco, N_wool},
        program_name \in {P_ECO, P_WOOL, P_NONE},
        overrides \in Overrides}

FavouriteLists ==
    UNION {[1..n -> Favourites] : n \in 0..MaxFavourites}

CategoryInputs == {N_eco, N_wool, N_my, S_custom, S_setParameters, S_iot_guided}

ValueInputs == {Forty, Number(<<"4", "5">>)}

LoaderInit ==
    /\ NoAppliance
    /\ params = <<>>
    /\ fired = <<>>
    /\ outcome = "ok"
    /\ last = NoCall
    /\ pre = [dicts |-> <<>>, maps |-> <<>>, commands |-> <<>>, attributes |-> <<>>]

\* the end of a call on the appliance
Commit(ld, call) ==
    /\ objects' = ld.objects
    /\ dicts' = ld.dicts
    /\ maps' = ld.maps
    /\ commands' = ld.commands
    /\ _attributes' = ld.attributes
    /\ outcome' = IF Failed(ld) THEN ld.err ELSE "ok"
    /\ last' = call
    /\ pre' = [dicts |-> dicts, maps |-> maps, commands |-> commands,
               attributes |-> _attributes]
    /\ UNCHANGED <<params, fired, now, __data, _tokens>>

\* self._commands = command_loader.commands, unless the property raised
Loaded(ld) == [ld EXCEPT !.commands = IF Failed(ld) THEN @ ELSE ld._commands]

\* HonAppliance.load_commands
LoadCommands ==
    /\ last.op = "none"
    /\ \E api \in ApiData : \E favourites \in FavouriteLists :
           Commit(Loaded(ParseCommands(NewLoader, api, <<>>, favourites)),
                  [op |-> "load", api |-> api, favourites |-> favourites])

\* the commands a caller can reach: the active ones and those of their
\* categories
Reachable ==
    UNION {{commands[i].value} \cup ValuesOf(Categories(NewLoader, commands[i].value)) :
              i \in 1..Len(commands)}

\* command.parameters[key].value = c on a ProgramParameter
SelectCategory ==
    \E id \in Reachable : \E key \in DOMAIN dicts[objects[id]._parameters] :
        \E c \in CategoryInputs :
            /\ dicts[objects[id]._parameters][key].kind = "program"
            /\ Commit(SetParameterValue(NewLoader, id, key, PyStr(c)),
                      [op |-> "select", on |-> id, key |-> key, arg |-> PyStr(c)])

\* command.parameters[key].value = v on any other parameter
AssignParameter ==
    \E id \in Reachable : \E key \in DOMAIN dicts[objects[id]._parameters] :
        \E v \in ValueInputs :
            /\ dicts[objects[id]._parameters][key].kind # "program"
            /\ Commit(SetParameterValue(NewLoader, id, key, v),
                      [op |-> "assign", on |-> id, key |-> key, arg |-> v])

LoaderNext == LoadCommands \/ SelectCategory \/ AssignParameter

SpecLoader == LoaderInit /\ [][LoaderNext]_vars


\* the active command of the command name of object id
ActiveOf(id) == EntryOf(commands, objects[id]._name)

\* the ProgramParameters of command id
ProgramParametersOf(id) ==
    {dicts[objects[id]._parameters][k] : k \in
        {key \in DOMAIN dicts[objects[id]._parameters] :
            dicts[objects[id]._parameters][key].kind = "program"}}

\* C7: assigning to a command's ProgramParameter the name c of a category
\* listed in its values makes appliance.commands[command name] the Command
\* object stored under c in the shared categories map, and the
\* ProgramParameter of that now-active command reports c as its value.
C7_SelectionSwitchesActive ==
    (last.op = "select" /\ outcome = "ok") =>
        LET categories == maps[dicts[objects[last.on]._parameters][last.key]._programs]
        IN /\ HasEntry(commands, objects[last.on]._name)
           /\ HasEntry(categories, last.arg.s)
           /\ ActiveOf(last.on) = EntryOf(categories, last.arg.s)
           /\ ProgramParametersOf(ActiveOf(last.on)) # {}
           /\ \A p \in ProgramParametersOf(ActiveOf(last.on)) : Value(p) = last.arg

\* C8: after loading, and after any sequence of category selections, the
\* active command appliance.commands[name] of a category-bearing command is
\* one of the values of its shared categories map, and a category selection
\* never adds, removes or replaces an entry of that map.
C8_ActiveIsACategory ==
    /\ \A i \in 1..Len(commands) :
           objects[commands[i].value]._categories # 0 =>
               commands[i].value \in ValuesOf(maps[objects[commands[i].value]._categories])
    /\ last.op = "select" => maps = pre.maps

\* the parameters of command id are as construction left them: no favourite
\* flag, every Range at its default
AsConstructed(id) ==
    /\ "favourite" \notin DOMAIN dicts[objects[id]._parameters]
    /\ \A k \in DOMAIN dicts[objects[id]._parameters] :
           dicts[objects[id]._parameters][k].kind = "range" =>
               dicts[objects[id]._parameters][k]._value =
                   dicts[objects[id]._parameters][k]._default

\* C9: after a favourite has been loaded from base category b, assigning a
\* value to a parameter of the favourite command does not change the value
\* of the same-named parameter of b, and applying the favourite's overriding
\* values and favourite flag at load time does not change b's parameters.
C9_FavouriteIsolation ==
    /\ (last.op = "assign" /\ objects[last.on].origin # 0) =>
           dicts[objects[objects[last.on].origin]._parameters][last.key] =
               pre.dicts[objects[objects[last.on].origin]._parameters][last.key]
    /\ (last.op = "load" /\ outcome = "ok") =>
           \A f \in 1..Len(objects) :
               objects[f].origin # 0 => AsConstructed(objects[f].origin)

\* a loader on an appliance that has loaded nothing yet
FreshLoader ==
    [objects |-> <<>>, dicts |-> <<>>, maps |-> <<>>, commands |-> <<>>,
     attributes |-> <<>>,
     _commands |-> <<>>, parsed |-> <<>>, err |-> "none", ret |-> 0]

\* the payload has the command and the base category the favourite names
BaseExists(api, favourite) ==
    LET ld == ParseAll(FreshLoader, api, 1)
    IN /\ ~Failed(ld)
       /\ HasEntry(ld._commands, favourite.commandName)
       /\ HasEntry(Categories(ld, EntryOf(ld._commands, favourite.commandName)),
                   CleanName(favourite.programName))

\* the categories of the active command hold the favourite under its name,
\* flagged favourite = 1 and selectable through the ProgramParameter
FavouriteLoaded(favourite) ==
    /\ HasEntry(commands, favourite.commandName)
    /\ LET active == EntryOf(commands, favourite.commandName)
           categories == Categories(NewLoader, active)
       IN /\ HasEntry(categories, favourite.favouriteName)
          /\ LET ps == dicts[objects[EntryOf(categories, favourite.favouriteName)]._parameters]
             IN /\ "favourite" \in DOMAIN ps
                /\ ps["favourite"].kind = "fixed"
                /\ Value(ps["favourite"]) = PyStr(<<"1">>)
          /\ ProgramParametersOf(active) # {}
          /\ \A p \in ProgramParametersOf(active) :
                 InSeq(favourite.favouriteName, ProgramValues(NewLoader, p))

\* C10: loading a favourite whose base category exists completes without
\* error and adds to the shared categories map an entry under the
\* favourite's user-given name that carries a Fixed parameter favourite = 1;
\* afterwards that name can be selected through the ProgramParameter like
\* any other category.
C10_FavouriteLoads ==
    last.op = "load" =>
        \A i \in 1..Len(last.favourites) :
            BaseExists(last.api, last.favourites[i]) =>
                /\ outcome = "ok"
                /\ FavouriteLoaded(last.favourites[i])


(***************************************************************************)
(* SpecHistory: an appliance loads its commands once from a payload and a  *)
(* command history, most recent entry first, without favourites.  The      *)
(* recorded values are strings, as the API delivers them.                  *)
(***************************************************************************)
MaxHistory == 2

\* a schema with two Range parameters: tempLevel 30..60 in steps of 10 and
\* rinse 1..3 in steps of 1
Rinsing ==
    CommandData(<<RangeLeaf("tempLevel", Number(<<"3", "0">>), Number(<<"6", "0">>),
                            Number(<<"1", "0">>)),
                  RangeLeaf("rinse", Number(<<"1">>), Number(<<"3">>), Number(<<"1">>))>>)

HistoryApi ==
    {<<Entry("startProgram", CategoriesData(<<Entry(P_ECO, Rinsing), Entry(P_WOOL, Rinsing)>>)),
       Entry("settings", Rinsing)>>,
     <<Entry("startProgram", CategoriesData(<<Entry(P_WOOL, Rinsing), Entry(P_ECO, Rinsing)>>))>>,
     <<Entry("startProgram", Rinsing)>>,
     <<Entry("settings", CategoriesData(<<Entry(S_custom, Rinsing),
                                          Entry(S_setParameters, Rinsing)>>))>>,
     <<Entry("startProgram", NoDict)>>}

RecordedParameters ==
    {<<>>,
     <<Entry("program", PyStr(P_WOOL)), Entry("tempLevel", Forty)>>,
     <<Entry("program", PyStr(P_ECO)), Entry("tempLevel", Number(<<"4", "5">>)),
       Entry("rinse", Number(<<"2">>))>>,
     <<Entry("tempLevel", Forty), Entry("rinse", PyStr(<<"x">>))>>,
     <<Entry("category", PyStr(S_custom)), Entry("rinse", Number(<<"3">>))>>,
     <<Entry("program", PyStr(P_NONE)), Entry("tempLevel", Number(<<"5", "0">>))>>}

HistoryEntries ==
    {HistoryEntry(name, parameters) :
        name \in {"startProgram", "settings"}, parameters \in RecordedParameters}
    \cup {HistoryEntry("", <<>>)}

Histories == UNION {[1..n -> HistoryEntries] : n \in 0..MaxHistory}

\* HonAppliance.load_commands with the history the API answers with
RecoverCommands ==
    /\ last.op = "none"
    /\ \E api \in HistoryApi : \E history \in Histories :
           Commit(Loaded(ParseCommands(NewLoader, api, history, <<>>)),
                  [op |-> "recover", api |-> api, history |-> history])

HistoryNext == RecoverCommands

SpecHistory == LoaderInit /\ [][HistoryNext]_vars


\* the parameters of the active command of a command name
ActiveParameters(name) == dicts[objects[EntryOf(commands, name)]._parameters]

\* the most recent entry of the history that carries the command name
LastEntry(history, name) ==
    history[CHOOSE i \in 1..Len(history) :
                /\ history[i].commandName = name
                /\ \A j \in 1..(i - 1) : history[j].commandName # name]

Recorded(history, name) == \E i \in 1..Len(history) : history[i].commandName = name

\* the category an entry's parameters record: the cleaned program, or else
\* the category, <<>> when neither is recorded
RecordedCategory(parameters) ==
    IF Truthy(DictGet(parameters, "program"))
    THEN CleanName(DictGet(parameters, "program").s)
    ELSE IF Truthy(DictGet(parameters, "category"))
    THEN DictGet(parameters, "category").s
    ELSE <<>>

\* the recorded values that are left once the program or category is taken
ReplayedParameters(parameters) ==
    SelectSeq(parameters, LAMBDA e : e.key \notin {"program", "category"})

\* assigning v to the parameter under key of ps validates
Accepts(ps, key, v) == ~Failed(SetValue(Begin(ps), key, v, 0))

\* the parameter under key of ps holds the recorded value v
Holds(ps, key, v) == SetValue(Begin(ps), key, v, 0).params[key] = ps[key]

\* C11: after command loading with history recovery, for every command
\* whose most recent history entry records a program (or category) naming
\* one of its categories, the appliance's active command for that name is
\* that category, and every recorded parameter value valid for that
\* category is the value of the same-named parameter of the active command.
C11_HistorySelectsCategory ==
    (last.op = "recover" /\ outcome = "ok") =>
        \A i \in 1..Len(commands) :
            LET name == commands[i].key
                categories == Categories(NewLoader, commands[i].value)
            IN (/\ Recorded(last.history, name)
                /\ HasEntry(categories,
                            RecordedCategory(LastEntry(last.history, name).parameters)))
               =>
               LET parameters == LastEntry(last.history, name).parameters
                   category == EntryOf(categories, RecordedCategory(parameters))
                   replayed == ReplayedParameters(parameters)
               IN /\ commands[i].value = category
                  /\ \A k \in 1..Len(replayed) :
                         (/\ replayed[k].key \in DOMAIN dicts[objects[category]._parameters]
                          /\ Accepts(dicts[objects[category]._parameters],
                                     replayed[k].key, replayed[k].value))
                         => Holds(ActiveParameters(name), replayed[k].key,
                                  replayed[k].value)

\* the payload loads when there is no history to recover
LoadsWithoutHistory(api) == ~Failed(ParseCommands(FreshLoader, api, <<>>, <<>>))

\* the Range parameter under key of ps is at its default
AtDefault(ps, key) == ps[key]._value = ps[key]._default

\* C18: history recovery uses, for each known command, the first entry with
\* that command name in the most-recent-first history; a recorded value
\* that fails validation is skipped without raising, and the remaining
\* recorded values of that entry and the other commands are still replayed.
C18_FirstEntryReplayed ==
    last.op = "recover" =>
        /\ LoadsWithoutHistory(last.api) <=> outcome = "ok"
        /\ outcome = "ok" =>
               \A i \in 1..Len(commands) :
                   LET name == commands[i].key
                       ps == ActiveParameters(name)
                       replayed == IF Recorded(last.history, name)
                                   THEN ReplayedParameters(
                                            LastEntry(last.history, name).parameters)
                                   ELSE <<>>
                   IN \A key \in {k \in DOMAIN ps : ps[k].kind = "range"} :
                          IF HasEntry(replayed, key) /\ Accepts(ps, key, EntryOf(replayed, key))
                          THEN Holds(ps, key, EntryOf(replayed, key))
                          ELSE AtDefault(ps, key)

\* a history whose first startProgram entry records an invalid tempLevel
\* before a valid rinse, and whose second one records other values, has
\* been recovered: rinse was replayed, tempLevel was not
C18_Witness ==
    /\ last.op = "recover"
    /\ outcome = "ok"
    /\ Len(last.history) = 2
    /\ last.history[1] =
           HistoryEntry("startProgram",
                        <<Entry("program", PyStr(P_ECO)),
                          Entry("tempLevel", Number(<<"4", "5">>)),
                          Entry("rinse", Number(<<"2">>))>>)
    /\ last.history[2] =
           HistoryEntry("startProgram",
                        <<Entry("tempLevel", Forty), Entry("rinse", PyStr(<<"x">>))>>)
    /\ HasEntry(commands, "startProgram")
    /\ Value(ActiveParameters("startProgram")["rinse"]) = PyInt(2)
    /\ AtDefault(ActiveParameters("startProgram"), "tempLevel")


(***************************************************************************)
(* pyhon/attributes.py.  An Attribute is [_value, _last_update,            *)
(* _lock_timestamp]: _value a string, the two timestamps seconds, NoTime   *)
(* for None.  The data of an update is a string, a number, or the dict     *)
(* {"parNewVal": ..., "lastUpdate": ...} of the API.                       *)
(***************************************************************************)
LOCK_TIMEOUT == 10

NoTime == -1

ShadowValue(value, last_update) ==
    [t |-> "dict", parNewVal |-> value, lastUpdate |-> last_update]

\* Attribute.value (getter): the number the string spells, or the string
AttributeValue(a) ==
    IF str_to_float(PyStr(a._value)).ok THEN str_to_float(PyStr(a._value)).val
    ELSE PyStr(a._value)

\* an attribute that is never locked
NeverLocked(a, t) == FALSE

\* Attribute.lock at time t
Lock(a, t) ==
    /\ a._lock_timestamp # NoTime
    /\ a._lock_timestamp + LOCK_TIMEOUT >= t

\* a bool as data of an update
PyBool(b) == [t |-> "bool", b |-> b]

\* what an update stores as the value: data.get("parNewVal", "") of a dict,
\* str(int(data)) of a bool, str(data) of anything else
Stored(data) ==
    CASE data.t = "dict" -> data.parNewVal
      [] data.t = "bool" -> IF data.b THEN <<"1">> ELSE <<"0">>
      [] OTHER -> Str(data)

\* Attribute.update at time t: [attr, ret]
AttributeUpdate(a, data, shield, t) ==
    IF Lock(a, t) /\ ~shield THEN [attr |-> a, ret |-> FALSE]
    ELSE [attr |-> [_value |-> Stored(data),
                    _last_update |-> IF data.t = "dict" THEN data.lastUpdate
                                     ELSE a._last_update,
                    _lock_timestamp |-> IF shield THEN t ELSE a._lock_timestamp],
          ret |-> TRUE]

\* Attribute.__init__ at time t
NewAttribute(data, t) ==
    AttributeUpdate([_value |-> <<>>, _last_update |-> NoTime,
                     _lock_timestamp |-> NoTime], data, FALSE, t).attr

\* the loop of HonAppliance.load_attributes over the shadow parameters
RECURSIVE LoadShadow(_, _, _, _)
LoadShadow(attrs, shadow, t, i) ==
    IF i > Len(shadow) THEN attrs
    ELSE LoadShadow(DictSet(attrs, shadow[i].key,
                            IF HasEntry(attrs, shadow[i].key)
                            THEN AttributeUpdate(EntryOf(attrs, shadow[i].key),
                                                 shadow[i].value, FALSE, t).attr
                            ELSE NewAttribute(shadow[i].value, t)),
                    shadow, t, i + 1)

\* HonCommand.setting_keys as a set: the list is built from a set, so its
\* order is any order
SettingKeys(ld, id) ==
    UNION {DOMAIN Parameters(ld, c) : c \in ValuesOf(Categories(ld, id))}

\* the sequences that list every element of S once
Orders(S) ==
    {order \in [1..Cardinality(S) -> S] :
        \A i, j \in 1..Cardinality(S) : order[i] = order[j] => i = j}

\* except ValueError as error: _LOGGER.info(...)
Logged(ld) == IF ld.err = "ValueError" THEN [ld EXCEPT !.err = "none"] ELSE ld

\* the assignment of sync_params_to_command: float(new.value) for a Range,
\* str(new.value) for any other parameter
SyncValue(ld, id, key, v) ==
    IF Parameters(ld, id)[key].kind = "range"
    THEN IF v.t \in {"int", "float"}
         THEN SetParameterValue(ld, id, key, PyFloat(v.h))
         ELSE Raise(ld, "ValueError")
    ELSE SetParameterValue(ld, id, key, PyStr(Str(v)))

\* one round of the loop over command.setting_keys
SyncKey(ld, id, key) ==
    IF ~HasEntry(ld.attributes, key) THEN ld
    ELSE IF AttributeValue(EntryOf(ld.attributes, key)) = PyStr(<<>>) THEN ld
    ELSE IF key \notin DOMAIN Parameters(ld, id) THEN Raise(ld, "KeyError")
    ELSE Logged(SyncValue(ld, id, key, AttributeValue(EntryOf(ld.attributes, key))))

RECURSIVE SyncKeys(_, _, _, _)
SyncKeys(ld, id, keys, i) ==
    IF Failed(ld) \/ i > Len(keys) THEN ld
    ELSE SyncKeys(SyncKey(ld, id, keys[i]), id, keys, i + 1)

\* HonAppliance.sync_params_to_command, with the order in which setting_keys
\* lists the keys
SyncParamsToCommand(ld, command_name, keys) ==
    IF Failed(ld) \/ ~HasEntry(ld.commands, command_name) THEN ld
    ELSE SyncKeys(ld, EntryOf(ld.commands, command_name), keys, 1)

\* the orders setting_keys can have for the command under command_name
KeyOrders(ld, command_name) ==
    IF Failed(ld) \/ ~HasEntry(ld.commands, command_name) THEN {<<>>}
    ELSE Orders(SettingKeys(ld, EntryOf(ld.commands, command_name)))


(***************************************************************************)
(* SpecSync: an appliance loads its commands once, without history and     *)
(* favourites, loads attributes from the shadow of the API, and copies     *)
(* attributes to the settings of a command.                                *)
(***************************************************************************)
MaxShadow == 2

SyncApi ==
    {<<Entry("settings", Rinsing)>>,
     <<Entry("settings", CategoriesData(<<Entry(S_setParameters, Washing),
                                          Entry(S_custom, Rinsing)>>))>>,
     <<Entry("startProgram", CategoriesData(<<Entry(P_ECO, Rinsing), Entry(P_WOOL, Washing)>>))>>}

ShadowEntries ==
    {Entry("tempLevel", ShadowValue(<<"4", "0">>, 1)),
     Entry("tempLevel", ShadowValue(<<"4", "5">>, 1)),
     Entry("tempLevel", ShadowValue(<<"a", "b", "c">>, NoTime)),
     Entry("tempLevel", ShadowValue(<<>>, 1)),
     Entry("rinse", ShadowValue(<<"2">>, 1)),
     Entry("category", ShadowValue(S_custom, 1))}

\* the shadows: their parameters are named once each
Shadows ==
    {shadow \in UNION {[1..n -> ShadowEntries] : n \in 1..MaxShadow} :
        \A i, j \in 1..Len(shadow) : shadow[i].key = shadow[j].key => i = j}

\* HonAppliance.load_commands, sync_params_to_command("settings") included
LoadSettings ==
    /\ last.op = "none"
    /\ \E api \in SyncApi :
           \E keys \in KeyOrders(Loaded(ParseCommands(NewLoader, api, <<>>, <<>>)),
                                 "settings") :
               Commit(SyncParamsToCommand(
                          Loaded(ParseCommands(NewLoader, api, <<>>, <<>>)),
                          "settings", keys),
                      [op |-> "load", api |-> api, favourites |-> <<>>])

\* HonAppliance.load_attributes
LoadAttributes ==
    \E shadow \in Shadows :
        Commit([NewLoader EXCEPT !.attributes = LoadShadow(@, shadow, now, 1)],
               [op |-> "attributes", shadow |-> shadow])

\* HonAppliance.sync_params_to_command(command_name)
SyncParams ==
    \E command_name \in {"settings", "startProgram"} :
        \E keys \in KeyOrders(NewLoader, command_name) :
            Commit(SyncParamsToCommand(NewLoader, command_name, keys),
                   [op |-> "sync", name |-> command_name, keys |-> keys])

SyncNext == LoadSettings \/ LoadAttributes \/ SyncParams

SpecSync == LoaderInit /\ [][SyncNext]_vars


\* what sync_params_to_command assigns for attribute a to parameter p: the
\* float of a number for a Range, the string for any other parameter
Coerced(p, a) ==
    IF p.kind = "range"
    THEN [ok |-> AttributeValue(a).t \in {"int", "float"},
          val |-> PyFloat(IF AttributeValue(a).t \in {"int", "float"}
                          THEN AttributeValue(a).h ELSE 0)]
    ELSE [ok |-> TRUE, val |-> PyStr(Str(AttributeValue(a)))]

\* C12: sync_params_to_command(name) never raises: a setting whose
\* attribute is missing or has the empty value is left unchanged, an
\* attribute that fails coercion or validation is skipped, and every
\* remaining setting receives its attribute's value.
C12_SyncNeverRaises ==
    (last.op = "sync" /\ HasEntry(pre.commands, last.name)) =>
        /\ outcome = "ok"
        /\ LET ref == objects[EntryOf(pre.commands, last.name)]._parameters
           IN \A key \in {k \in DOMAIN dicts[ref] : dicts[ref][k].kind # "program"} :
                  IF /\ HasEntry(_attributes, key)
                     /\ EntryOf(_attributes, key)._value # <<>>
                     /\ Coerced(pre.dicts[ref][key], EntryOf(_attributes, key)).ok
                     /\ Accepts(pre.dicts[ref], key,
                                Coerced(pre.dicts[ref][key], EntryOf(_attributes, key)).val)
                  THEN Holds(dicts[ref], key,
                             Coerced(pre.dicts[ref][key], EntryOf(_attributes, key)).val)
                  ELSE dicts[ref][key] = pre.dicts[ref][key]


(***************************************************************************)
(* Sending.  What reaches the transport is data = [commandName,            *)
(* parameters, ancillaryParameters, programName]: the two groups are       *)
(* ordered dicts name -> string, programName is a string or None.  The     *)
(* answer of the API is [result, payload, code]: whether the response has  *)
(* a body, whether the body has a payload, and the resultCode where the    *)
(* caller looks for it (None when there is none).                          *)
(***************************************************************************)
S_prStr == "prStr"

S_programRules == "programRules"

\* HonCommand.parameter_groups / mandatory_parameter_groups, one group of it
RECURSIVE ParameterGroup(_, _, _, _, _)
ParameterGroup(ld, id, group, only_mandatory, i) ==
    IF i > Len(ld.objects[id]._order) THEN <<>>
    ELSE (IF /\ Parameters(ld, id)[ld.objects[id]._order[i]].group = group
             /\ (only_mandatory =>
                    Parameters(ld, id)[ld.objects[id]._order[i]].mandatory # 0)
          THEN <<Entry(ld.objects[id]._order[i],
                       PyStr(InternValue(Parameters(ld, id)[ld.objects[id]._order[i]])))>>
          ELSE <<>>)
         \o ParameterGroup(ld, id, group, only_mandatory, i + 1)

\* HonAppliance.sync_command_to_params at time t: the loop over the
\* attributes
RECURSIVE ShieldAttributes(_, _, _, _)
ShieldAttributes(attrs, ps, t, i) ==
    IF i > Len(attrs) THEN attrs
    ELSE ShieldAttributes(
             IF attrs[i].key \in DOMAIN ps
             THEN [attrs EXCEPT ![i].value =
                      AttributeUpdate(@, PyStr(InternValue(ps[attrs[i].key])),
                                      TRUE, t).attr]
             ELSE attrs,
             ps, t, i + 1)

\* HonAppliance.sync_command_to_params at time t
SyncCommandToParams(ld, command_name, t) ==
    IF ~HasEntry(ld.commands, command_name) THEN ld
    ELSE [ld EXCEPT !.attributes =
             ShieldAttributes(@, Parameters(ld, EntryOf(ld.commands, command_name)),
                              t, 1)]

\* the data of HonAppliance.send_command for the arguments args = [command,
\* parameters, ancillary_parameters, program_name]
CommandPayload(args) ==
    [commandName |-> args.command,
     parameters |-> args.parameters,
     ancillaryParameters |-> args.ancillary_parameters,
     programName |-> IF args.command = "startProgram" /\ args.program_name # <<>>
                     THEN PyStr(Upper(args.program_name)) ELSE PyNone]

\* the end of a send_command: the data, what was posted (None when nothing
\* was), the value returned, the exception raised and the data it carries
Sent(data, posted, ret, err) ==
    [data |-> data, posted |-> posted, ret |-> ret, err |-> err,
     carried |-> IF err = "none" THEN PyNone ELSE data]

\* HonAppliance.send_command (appliance.py)
SendCommand(data, answer) ==
    IF answer.result /\ answer.payload
    THEN Sent(data, data, IF answer.code = PyStr(<<"0">>) THEN "True" ELSE "False",
              "none")
    ELSE Sent(data, data, "None", "ApiError")

\* Appliance.send_command (appliances/_base.py)
SendCommandAppliance(data, answer) ==
    IF answer.code = PyStr(<<"0">>) THEN Sent(data, data, "True", "none")
    ELSE Sent(data, data, "None", "ApiError")

\* HonAppliance.send_command (appliances/base.py): the call sits in the
\* branch that adds the programName
SendCommandProgram(data, answer) ==
    IF data.programName = PyNone THEN Sent(data, PyNone, "None", "none")
    ELSE IF answer.code = PyStr(<<"0">>) THEN Sent(data, data, "True", "none")
    ELSE Sent(data, data, "None", "ApiError")

\* a send that leaves prStr as the schema gave it
KeepPrStr(ld, id, parameters) == parameters

\* params["prStr"] = self._category_name.upper()
WithPrStr(ld, id, parameters) ==
    IF HasEntry(parameters, S_prStr)
    THEN DictSet(parameters, S_prStr, PyStr(Upper(ld.objects[id]._category_name)))
    ELSE parameters

\* HonCommand.send_parameters: the arguments handed to send_command
SendArgs(ld, id, parameters) ==
    [command |-> ld.objects[id]._name,
     parameters |-> WithPrStr(ld, id, parameters),
     ancillary_parameters |->
         DictPop(ParameterGroup(ld, id, "ancillaryParameters", FALSE, 1),
                 S_programRules),
     program_name |-> ld.objects[id]._category_name]

\* HonCommand.send
SendParams(ld, id, only_mandatory) ==
    ParameterGroup(ld, id, "parameters", only_mandatory, 1)


(***************************************************************************)
(* SpecSend: an appliance loads its commands once, without history and     *)
(* favourites, loads attributes, and callers select categories and send    *)
(* the active commands; the API answers a send in one of the ways Answers  *)
(* lists.  The three send_command of the repository are the variants of    *)
(* Send.                                                                   *)
(***************************************************************************)
FixedLeaf(name, value, mandatory) ==
    ParameterLeaf(name, [NoAttributes EXCEPT !.typology = PyStr(S_fixed),
                                             !.fixedValue = value,
                                             !.mandatory = mandatory])

Ancillary(leaf) == [leaf EXCEPT !.group = "ancillaryParameters"]

Mandatory(leaf) == [leaf EXCEPT !.attributes.mandatory = 1]

\* {"parameters": {tempLevel: mandatory range, prStr: fixed, spin: enum of
\* "A|B" and "C"}, "ancillaryParameters": {programRules: fixed,
\* remoteCtrValid: fixed}}
Cycle ==
    CommandData(<<Mandatory(RangeLeaf("tempLevel", Number(<<"3", "0">>),
                                      Number(<<"6", "0">>), Number(<<"1", "0">>))),
                  FixedLeaf(S_prStr, PyStr(<<"x">>), 0),
                  EnumLeaf("spin", <<PyStr(<<"A", "|", "B">>), PyStr(<<"C">>)>>,
                           PyStr(<<"A", "|", "B">>)),
                  Ancillary(FixedLeaf(S_programRules, PyStr(<<"r">>), 0)),
                  Ancillary(FixedLeaf("remoteCtrValid", PyStr(<<"1">>), 1))>>)

SendApi ==
    {<<Entry("startProgram", CategoriesData(<<Entry(P_ECO, Cycle), Entry(P_WOOL, Cycle)>>))>>,
     <<Entry("startProgram", Cycle)>>,
     <<Entry("settings", CategoriesData(<<Entry(S_setParameters, Cycle),
                                          Entry(S_custom, Washing)>>))>>}

SendShadows ==
    {<<Entry("tempLevel", ShadowValue(<<"5", "0">>, 1))>>,
     <<Entry("spin", ShadowValue(<<"C">>, NoTime)),
       Entry("other", ShadowValue(<<"1">>, 1))>>}

NoAnswer == [result |-> FALSE, payload |-> FALSE, code |-> PyNone]

Answers ==
    {NoAnswer,
     [result |-> TRUE, payload |-> FALSE, code |-> PyNone],
     [result |-> TRUE, payload |-> TRUE, code |-> PyNone],
     [result |-> TRUE, payload |-> TRUE, code |-> PyStr(<<"0">>)],
     [result |-> TRUE, payload |-> TRUE, code |-> PyStr(<<"1">>)]}

Variants == {"appliance.py", "appliances/_base.py", "appliances/base.py"}

\* HonAppliance.load_commands; the appliance has no attributes yet
LoadSend ==
    /\ last.op = "none"
    /\ _attributes = <<>>
    /\ \E api \in SendApi :
           Commit(Loaded(ParseCommands(NewLoader, api, <<>>, <<>>)),
                  [op |-> "load", api |-> api, favourites |-> <<>>])

\* HonAppliance.load_attributes
LoadSendAttributes ==
    /\ last.op # "none"
    /\ \E shadow \in SendShadows :
           Commit([NewLoader EXCEPT !.attributes = LoadShadow(@, shadow, now, 1)],
                  [op |-> "attributes", shadow |-> shadow])

\* send_command of the variant
SendCommandOf(variant, args, answer) ==
    CASE variant = "appliance.py" -> SendCommand(CommandPayload(args), answer)
      [] variant = "appliances/_base.py" ->
            SendCommandAppliance(CommandPayload(args), answer)
      [] OTHER -> SendCommandProgram(CommandPayload(args), answer)

\* the end of HonCommand.send_parameters
SendVia(ld, call, sent) ==
    Commit([ld EXCEPT !.err = sent.err], [call EXCEPT !.sent = sent])

\* HonCommand.send(only_mandatory) on an active command
Send ==
    \E id \in ValuesOf(commands) : \E only_mandatory \in BOOLEAN :
        \E answer \in Answers : \E variant \in Variants :
            /\ variant # "appliance.py" => answer.result /\ answer.payload
            /\ SendVia(SyncCommandToParams(NewLoader, objects[id]._name, now),
                       [op |-> "send", on |-> id, only_mandatory |-> only_mandatory,
                        answer |-> answer, variant |-> variant,
                        args |-> SendArgs(NewLoader, id,
                                          SendParams(NewLoader, id, only_mandatory)),
                        sent |-> PyNone],
                       SendCommandOf(variant,
                                     SendArgs(NewLoader, id,
                                              SendParams(NewLoader, id, only_mandatory)),
                                     answer))

SendNext == LoadSend \/ LoadSendAttributes \/ SelectCategory \/ Send

SpecSend == LoaderInit /\ [][SendNext]_vars


\* the names of group among the parameters of command id
GroupKeys(id, group) ==
    {k \in DOMAIN dicts[objects[id]._parameters] :
        dicts[objects[id]._parameters][k].group = group}

\* the wire format of a parameter: the raw token of an Enum, the string of
\* the value of any other parameter
WireValue(p) == IF p.kind = "enum" THEN Str(p._value) ELSE Str(Value(p))

\* the ordered dict d names every element of keys once, and nothing else
NamesExactly(d, keys) ==
    /\ {d[i].key : i \in 1..Len(d)} = keys
    /\ Len(d) = Cardinality(keys)

\* C13: send() hands to the transport exactly the parameters of group
\* "parameters" of the active category, each as its intern_value, together
\* with the ancillaryParameters group without programRules; when prStr is
\* among the parameters it is sent as the upper-cased category name; the
\* synthetic program/category parameter is never among the sent parameters.
C13_SendHandsGroups ==
    (last.op = "send" /\ ~last.only_mandatory) =>
        LET ps == dicts[objects[last.on]._parameters]
        IN /\ last.on = EntryOf(commands, objects[last.on]._name)
           /\ last.args.command = objects[last.on]._name
           /\ last.args.program_name = objects[last.on]._category_name
           /\ NamesExactly(last.args.parameters, GroupKeys(last.on, "parameters"))
           /\ \A i \in 1..Len(last.args.parameters) :
                  /\ ps[last.args.parameters[i].key].kind # "program"
                  /\ last.args.parameters[i].value =
                         IF last.args.parameters[i].key = S_prStr
                         THEN PyStr(Upper(objects[last.on]._category_name))
                         ELSE PyStr(WireValue(ps[last.args.parameters[i].key]))
           /\ NamesExactly(last.args.ancillary_parameters,
                           GroupKeys(last.on, "ancillaryParameters") \ {S_programRules})
           /\ \A i \in 1..Len(last.args.ancillary_parameters) :
                  last.args.ancillary_parameters[i].value =
                      PyStr(WireValue(ps[last.args.ancillary_parameters[i].key]))

\* the category PROGRAMS.WOOL was selected and sent: prStr went out as the
\* upper-cased category name, spin as its raw token, programRules not at all
C13_Witness ==
    /\ last.op = "send"
    /\ ~last.only_mandatory
    /\ objects[last.on]._category_name = P_WOOL
    /\ EntryOf(last.args.parameters, S_prStr) = PyStr(Upper(P_WOOL))
    /\ EntryOf(last.args.parameters, "spin") = PyStr(<<"A", "|", "B">>)
    /\ GroupKeys(last.on, "ancillaryParameters") = {S_programRules, "remoteCtrValid"}
    /\ KeysOf(last.args.ancillary_parameters) = <<"remoteCtrValid">>

\* C19: send_command raises ApiError carrying the outgoing payload whenever
\* the answer lacks result code "0", returns True only when the result code
\* is "0", and never returns normally after a non-success answer.
C19_SendFailureRaises ==
    last.op = "send" =>
        /\ last.sent.ret = "True" => last.answer.code = PyStr(<<"0">>)
        /\ ~(last.answer.result /\ last.answer.payload
             /\ last.answer.code = PyStr(<<"0">>))
               => (outcome = "ApiError" /\ last.sent.carried = last.sent.data)


(***************************************************************************)
(* Parameter.sync and HonAppliance.sync_command.  The target of a          *)
(* sync_command is None, a list of command names or one string; to_sync is *)
(* None, a bool or a list of parameter names.                              *)
(***************************************************************************)
NoTarget == [t |-> "none"]

TargetList(names) == [t |-> "list", names |-> names]

TargetStr(name) == [t |-> "str", s |-> name]

SyncAll == [t |-> "none"]

SyncMandatory == [t |-> "bool", b |-> TRUE]

SyncList(names) == [t |-> "list", names |-> names]

\* the characters of a command name
CommandChars(name) ==
    CASE name = "startProgram" ->
            <<"s", "t", "a", "r", "t", "P", "r", "o", "g", "r", "a", "m">>
      [] name = "stopProgram" ->
            <<"s", "t", "o", "p", "P", "r", "o", "g", "r", "a", "m">>
      [] name = "settings" -> <<"s", "e", "t", "t", "i", "n", "g", "s">>
      [] OTHER -> <<>>

\* not target or command in target
Targeted(command, target) ==
    CASE target.t = "none" -> TRUE
      [] target.t = "list" -> target.names = {} \/ command \in target.names
      [] OTHER -> target.s = "" \/ Contains(CommandChars(target.s), CommandChars(command))

\* to_sync and ((isinstance(to_sync, list) and name not in to_sync) or not
\* base_param.mandatory)
Skipped(to_sync, name, base_param) ==
    CASE to_sync.t = "none" -> FALSE
      [] to_sync.t = "bool" -> to_sync.b /\ base_param.mandatory = 0
      [] OTHER -> /\ to_sync.names # {}
                  /\ (name \notin to_sync.names \/ base_param.mandatory = 0)

\* int(x) of a Python value
IntOf(x) ==
    CASE x.t = "int" -> [ok |-> TRUE, val |-> x.h \div 2]
      [] x.t = "float" -> [ok |-> TRUE, val |-> x.h \div 2]
      [] x.t = "str" /\ IsIntLiteral(x.s) -> [ok |-> TRUE, val |-> ParseDigits(x.s)]
      [] OTHER -> [ok |-> FALSE, val |-> 0]

\* HonParameterRange.sync
SyncRange(ld, id, key, other) ==
    IF other.kind = "range"
    THEN SetParameterValue(
             [ld EXCEPT !.dicts[ld.objects[id]._parameters][key].min = other.min,
                        !.dicts[ld.objects[id]._parameters][key].max = other.max,
                        !.dicts[ld.objects[id]._parameters][key]._step = Step(other)],
             id, key, Value(other))
    ELSE IF IntOf(Value(other)).ok
    THEN SetParameterValue(
             [ld EXCEPT !.dicts[ld.objects[id]._parameters][key].min =
                            2 * IntOf(Value(other)).val,
                        !.dicts[ld.objects[id]._parameters][key].max =
                            2 * IntOf(Value(other)).val,
                        !.dicts[ld.objects[id]._parameters][key]._step = 2],
             id, key, Value(other))
    ELSE Raise(ld, "ValueError")

\* other.values as the list an Enum stores
ValuesList(ld, other) ==
    IF other.kind = "program"
    THEN [i \in 1..Len(ProgramValues(ld, other)) |-> PyStr(ProgramValues(ld, other)[i])]
    ELSE [i \in 1..Len(EnumValues(other)) |-> PyStr(EnumValues(other)[i])]

\* EnumParameter.sync, which ProgramParameter inherits
SyncEnum(ld, id, key, other) ==
    IF other.kind \notin {"enum", "program"} THEN Raise(ld, "ValueError")
    ELSE SetParameterValue(
             [ld EXCEPT !.dicts[ld.objects[id]._parameters][key]._values =
                            ValuesList(ld, other)],
             id, key, Value(other))

\* target_param.sync(base_param)
SyncParameter(ld, id, key, other) ==
    CASE Failed(ld) -> ld
      [] Parameters(ld, id)[key].kind = "range" -> SyncRange(ld, id, key, other)
      [] Parameters(ld, id)[key].kind \in {"enum", "program"} ->
            SyncEnum(ld, id, key, other)
      [] OTHER -> SetParameterValue(ld, id, key, Value(other))

\* the loop of sync_command over data.parameters
RECURSIVE SyncTarget(_, _, _, _, _)
SyncTarget(ld, base, id, to_sync, i) ==
    IF Failed(ld) \/ i > Len(ld.objects[id]._order) THEN ld
    ELSE SyncTarget(
             IF /\ ld.objects[id]._order[i] \in DOMAIN Parameters(ld, base)
                /\ ~Skipped(to_sync, ld.objects[id]._order[i],
                            Parameters(ld, base)[ld.objects[id]._order[i]])
             THEN SyncParameter(ld, id, ld.objects[id]._order[i],
                                Parameters(ld, base)[ld.objects[id]._order[i]])
             ELSE ld,
             base, id, to_sync, i + 1)

\* the loop of sync_command over the commands as they were when it began
RECURSIVE SyncCommands(_, _, _, _, _, _)
SyncCommands(ld, items, main, target, to_sync, i) ==
    IF Failed(ld) \/ i > Len(items) THEN ld
    ELSE SyncCommands(
             IF items[i].key # main /\ Targeted(items[i].key, target)
             THEN SyncTarget(ld, EntryOf(items, main), items[i].value, to_sync, 1)
             ELSE ld,
             items, main, target, to_sync, i + 1)

\* HonAppliance.sync_command
SyncCommand(ld, main, target, to_sync) ==
    IF ~HasEntry(ld.commands, main) THEN ld
    ELSE SyncCommands(ld, ld.commands, main, target, to_sync, 1)


(***************************************************************************)
(* SpecCopy: an appliance loads its commands, and sync_command copies the  *)
(* parameters of one command onto the others, again and again.             *)
(***************************************************************************)
\* {"parameters": {tempLevel: range 20..40 in steps of 20, spin: enum of "C"}}
Warm ==
    CommandData(<<RangeLeaf("tempLevel", Number(<<"2", "0">>), Number(<<"4", "0">>),
                            Number(<<"2", "0">>)),
                  EnumLeaf("spin", <<PyStr(<<"C">>)>>, PyStr(<<"C">>))>>)

CopyApi ==
    {<<Entry("startProgram", Cycle), Entry("settings", Warm),
       Entry("stopProgram", Washing)>>,
     <<Entry("startProgram", CategoriesData(<<Entry(P_ECO, Cycle), Entry(P_WOOL, Warm)>>)),
       Entry("settings", Warm)>>}

CommandNames == {"startProgram", "settings", "stopProgram"}

Targets ==
    {NoTarget, TargetList({"settings"}), TargetStr("settings"),
     TargetList({"stopProgram", "startProgram"})}

ToSyncs ==
    {SyncAll, SyncMandatory, SyncList({"spin"}), SyncList({"spin", "tempLevel"})}

\* HonAppliance.load_commands; the appliance has no attributes
LoadCopy ==
    /\ last.op = "none"
    /\ \E api \in CopyApi :
           Commit(Loaded(ParseCommands(NewLoader, api, <<>>, <<>>)),
                  [op |-> "load", api |-> api, favourites |-> <<>>])

\* HonAppliance.sync_command(main, target, to_sync)
SyncCommandCall ==
    /\ last.op # "none"
    /\ \E main \in CommandNames : \E target \in Targets : \E to_sync \in ToSyncs :
           Commit(SyncCommand(NewLoader, main, target, to_sync),
                  [op |-> "sync_command", main |-> main, target |-> target,
                   to_sync |-> to_sync])

CopyNext == LoadCopy \/ SyncCommandCall

SpecCopy == LoaderInit /\ [][CopyNext]_vars


\* what the claim says sync_command copies: the parameters named in the
\* list, the mandatory ones of main, or all of them
Copied(to_sync, name, base_param) ==
    CASE to_sync.t = "list" -> name \in to_sync.names
      [] to_sync.t = "bool" -> base_param.mandatory # 0
      [] OTHER -> TRUE

\* the commands sync_command writes to: all but main, or those of target
IsTarget(command, main, target) ==
    /\ command # main
    /\ CASE target.t = "none" -> TRUE
         [] target.t = "list" -> command \in target.names
         [] OTHER -> command = target.s

\* the parameters of the command that was active under name when the call
\* began, then and now
ParametersBefore(name) == pre.dicts[objects[EntryOf(pre.commands, name)]._parameters]

ParametersAfter(name) == dicts[objects[EntryOf(pre.commands, name)]._parameters]

\* C14: sync_command(main, target, to_sync) with to_sync a list copies onto
\* each target command every parameter that is named in the list and
\* present in both main and the target; with to_sync = True it copies
\* exactly the shared parameters that are mandatory in main; with no
\* to_sync it copies every shared parameter.  Parameters of main and of
\* commands outside target are unchanged.
C14_SyncCommandCopies ==
    (last.op = "sync_command" /\ outcome = "ok" /\ HasEntry(pre.commands, last.main)) =>
        \A i \in 1..Len(pre.commands) :
            LET name == pre.commands[i].key
                before == ParametersBefore(name)
                after == ParametersAfter(name)
                base == ParametersBefore(last.main)
            IN IF IsTarget(name, last.main, last.target)
               THEN \A key \in {k \in DOMAIN before \cap DOMAIN base :
                                   before[k].kind # "program"} :
                        IF Copied(last.to_sync, key, base[key])
                        THEN PyEq(Value(after[key]), Value(base[key]))
                        ELSE after[key] = before[key]
               ELSE after = before


(***************************************************************************)
(* SpecShield: an appliance with one command and the attribute tempLevel.  *)
(* Time passes in steps; the API updates the attribute without shield,     *)
(* callers update it with or without shield, and sync_command_to_params    *)
(* writes the command's value into it.                                     *)
(***************************************************************************)
MaxTime == 22

TickSteps == {LOCK_TIMEOUT \div 2, LOCK_TIMEOUT + 1}

ShieldApi == {<<Entry("startProgram", Washing)>>}

ShieldShadows ==
    {<<Entry("tempLevel", ShadowValue(<<"4", "0">>, 1))>>,
     <<Entry("tempLevel", ShadowValue(<<>>, NoTime))>>}

UpdateData == {PyStr(<<"5", "0">>), PyBool(TRUE), ShadowValue(<<"6", "0">>, NoTime)}

\* HonAppliance.load_commands; the appliance has no attributes yet
LoadShield ==
    /\ last.op = "none"
    /\ \E api \in ShieldApi :
           Commit(Loaded(ParseCommands(NewLoader, api, <<>>, <<>>)),
                  [op |-> "load", api |-> api, favourites |-> <<>>])

\* HonAppliance.load_attributes at the time now
LoadShieldAttributes ==
    /\ last.op # "none"
    /\ \E shadow \in ShieldShadows :
           Commit([NewLoader EXCEPT !.attributes = LoadShadow(@, shadow, now, 1)],
                  [op |-> "attributes", shadow |-> shadow])

\* appliance.attributes["parameters"][key].update(data, shield) at the time
\* now
UpdateAttribute ==
    \E i \in 1..Len(_attributes) : \E data \in UpdateData : \E shield \in BOOLEAN :
        Commit([NewLoader EXCEPT !.attributes[i].value =
                   AttributeUpdate(@, data, shield, now).attr],
               [op |-> "update", key |-> _attributes[i].key, data |-> data,
                shield |-> shield, at |-> now,
                ret |-> AttributeUpdate(_attributes[i].value, data, shield, now).ret])

\* HonAppliance.sync_command_to_params(command_name) at the time now
SyncToParams ==
    \E command_name \in {"startProgram", "settings"} :
        Commit(SyncCommandToParams(NewLoader, command_name, now),
               [op |-> "sync_to_params", name |-> command_name, at |-> now])

\* time passes
Tick ==
    \E d \in TickSteps :
        /\ now + d <= MaxTime
        /\ now' = now + d
        /\ UNCHANGED <<params, fired, outcome, last, pre, objects, dicts, maps,
                       commands, _attributes, __data, _tokens>>

ShieldNext ==
    LoadShield \/ LoadShieldAttributes \/ UpdateAttribute \/ SyncToParams
    \/ AssignParameter \/ Tick

SpecShield == LoaderInit /\ [][ShieldNext]_vars


\* less than the lock timeout has passed since the attribute was shielded
Within(a, t) == a._lock_timestamp # NoTime /\ t - a._lock_timestamp < LOCK_TIMEOUT

\* the attribute was never shielded, or more than the lock timeout ago
Past(a, t) == a._lock_timestamp = NoTime \/ t - a._lock_timestamp > LOCK_TIMEOUT

\* C15: an Attribute updated with shield=True takes the new value even
\* while it is locked and is locked from that moment for the lock timeout
\* (10 s); while locked, every update without shield returns False and
\* leaves the value unchanged; once the timeout has passed without a new
\* shielded update, unshielded updates apply again.  sync_command_to_params
\* always uses the shielded update.
C15_ShieldLocks ==
    /\ last.op = "update" =>
           /\ last.shield =>
                  /\ last.ret
                  /\ EntryOf(_attributes, last.key)._value = Stored(last.data)
                  /\ EntryOf(_attributes, last.key)._lock_timestamp = last.at
           /\ (~last.shield /\ Within(EntryOf(pre.attributes, last.key), last.at)) =>
                  /\ ~last.ret
                  /\ EntryOf(_attributes, last.key) = EntryOf(pre.attributes, last.key)
           /\ (~last.shield /\ Past(EntryOf(pre.attributes, last.key), last.at)) =>
                  /\ last.ret
                  /\ EntryOf(_attributes, last.key)._value = Stored(last.data)
                  /\ EntryOf(_attributes, last.key)._lock_timestamp =
                         EntryOf(pre.attributes, last.key)._lock_timestamp
    /\ (last.op = "sync_to_params" /\ HasEntry(commands, last.name)) =>
           \A i \in 1..Len(_attributes) :
               IF _attributes[i].key \in DOMAIN ActiveParameters(last.name)
               THEN /\ _attributes[i].value._value =
                           WireValue(ActiveParameters(last.name)[_attributes[i].key])
                    /\ _attributes[i].value._lock_timestamp = last.at
               ELSE _attributes[i] = pre.attributes[i]
    /\ \A i \in 1..Len(_attributes) :
           Within(_attributes[i].value, now) =>
               AttributeUpdate(_attributes[i].value, PyStr(<<"0">>), FALSE, now).ret = FALSE

\* an update without shield came while the attribute was locked by a
\* shielded update made at an earlier time, and was refused
C15_Witness ==
    /\ last.op = "update"
    /\ ~last.shield
    /\ EntryOf(pre.attributes, last.key)._lock_timestamp # NoTime
    /\ EntryOf(pre.attributes, last.key)._lock_timestamp < last.at
    /\ Within(EntryOf(pre.attributes, last.key), last.at)
    /\ ~last.ret
    /\ EntryOf(_attributes, last.key)._value # Stored(last.data)


(***************************************************************************)
(* ProgramParameter.ids: [ok, val], val the dict prCode -> category name   *)
(* in the order of its keys; ok is FALSE when int() raises ValueError.     *)
(***************************************************************************)
S_iot == <<"i", "o", "t", "_">>

\* the category cid is listed whatever its favourite flag says
ListedWithFavourites(ld, name, cid) ==
    /\ ~Contains(name, S_iot)
    /\ "prCode" \in DOMAIN Parameters(ld, cid)

\* the three tests of ids on the category cid stored under name
Listed(ld, name, cid) ==
    /\ ~Contains(name, S_iot)
    /\ "prCode" \in DOMAIN Parameters(ld, cid)
    /\ \/ "favourite" \notin DOMAIN Parameters(ld, cid)
       \/ ~PyEq(Value(Parameters(ld, cid)["favourite"]), PyStr(<<"1">>))

\* int(parameter.parameters["prCode"].value)
PrCode(ld, cid) == IntOf(Value(Parameters(ld, cid)["prCode"]))

\* dict(sorted(values.items())): the entry goes before the first larger key
RECURSIVE InsertByKey(_, _)
InsertByKey(e, d) ==
    IF d = <<>> THEN <<e>>
    ELSE IF e.key < Head(d).key THEN <<e>> \o d
    ELSE <<Head(d)>> \o InsertByKey(e, Tail(d))

RECURSIVE SortedByKey(_)
SortedByKey(d) == IF d = <<>> THEN <<>> ELSE InsertByKey(Head(d), SortedByKey(Tail(d)))

\* the loop of ids over self._programs.items()
RECURSIVE IdsFrom(_, _, _, _)
IdsFrom(ld, programs, values, i) ==
    IF i > Len(programs) THEN [ok |-> TRUE, val |-> SortedByKey(values)]
    ELSE IF ~Listed(ld, programs[i].key, programs[i].value)
    THEN IdsFrom(ld, programs, values, i + 1)
    ELSE IF ~PrCode(ld, programs[i].value).ok THEN [ok |-> FALSE, val |-> <<>>]
    ELSE IdsFrom(ld, programs,
                 DictSet(values, PrCode(ld, programs[i].value).val, programs[i].key),
                 i + 1)

\* ProgramParameter.ids
Ids(ld, p) == IdsFrom(ld, ld.maps[p._programs], <<>>, 1)


(***************************************************************************)
(* SpecIds: an appliance loads categories that carry a prCode, and         *)
(* favourites, and callers select categories.                              *)
(***************************************************************************)
\* a category schema with the program code prCode
Coded(code) ==
    CommandData(<<RangeLeaf("tempLevel", Number(<<"3", "0">>), Number(<<"6", "0">>),
                            Number(<<"1", "0">>)),
                  FixedLeaf("prCode", PyStr(code), 0)>>)

IdsApi ==
    {<<Entry("startProgram", CategoriesData(<<Entry(P_ECO, Coded(<<"1">>)),
                                              Entry(P_WOOL, Coded(<<"2">>)),
                                              Entry(P_GUIDED, Coded(<<"3">>))>>))>>,
     <<Entry("startProgram", CategoriesData(<<Entry(P_ECO, Coded(<<"1">>)),
                                              Entry(P_WOOL, Washing)>>))>>,
     <<Entry("startProgram", CategoriesData(<<Entry(P_WOOL, Coded(<<"2">>)),
                                              Entry(P_ECO, Coded(<<"2">>))>>))>>,
     <<Entry("startProgram", CategoriesData(<<Entry(P_ECO, Coded(<<"1", "2">>)),
                                              Entry(P_WOOL, Coded(<<"x">>))>>))>>}

IdsFavourites ==
    {Favourite(name, "startProgram", program_name, overrides) :
        name \in {N_eco, N_wool},
        program_name \in {P_ECO, P_WOOL, P_NONE},
        overrides \in {<<>>, <<Entry("prCode", PyStr(<<"7">>))>>}}

IdsFavouriteLists == UNION {[1..n -> IdsFavourites] : n \in 0..MaxFavourites}

\* HonAppliance.load_commands; the appliance has no attributes
LoadIds ==
    /\ last.op = "none"
    /\ \E api \in IdsApi : \E favourites \in IdsFavouriteLists :
           Commit(Loaded(ParseCommands(NewLoader, api, <<>>, favourites)),
                  [op |-> "load", api |-> api, favourites |-> favourites])

IdsNext == LoadIds \/ SelectCategory

SpecIds == LoaderInit /\ [][IdsNext]_vars


\* the ProgramParameters a caller can reach
ReachablePrograms == UNION {ProgramParametersOf(id) : id \in Reachable}

\* the category stored under name carries favourite = 1
Favoured(p, name) ==
    LET ps == dicts[objects[EntryOf(maps[p._programs], name)]._parameters]
    IN "favourite" \in DOMAIN ps /\ Value(ps["favourite"]) = PyStr(<<"1">>)

\* C16: ProgramParameter.ids never contains a category whose name contains
\* "iot_" nor a category carrying favourite = 1, in every state reachable by
\* loading categories and favourites; every key of ids is the integer
\* prCode of the category it maps to.
C16_IdsExcludes ==
    \A p \in ReachablePrograms :
        Ids(NewLoader, p).ok =>
            \A i \in 1..Len(Ids(NewLoader, p).val) :
                LET name == Ids(NewLoader, p).val[i].value
                IN /\ HasEntry(maps[p._programs], name)
                   /\ ~Contains(name, S_iot)
                   /\ ~Favoured(p, name)
                   /\ "prCode" \in
                          DOMAIN dicts[objects[EntryOf(maps[p._programs], name)]._parameters]
                   /\ Value(dicts[objects[EntryOf(maps[p._programs], name)]._parameters]
                                ["prCode"])
                          = PyStr(NatToStr(Ids(NewLoader, p).val[i].key))

\* categories and a favourite are loaded: one category carries a prCode and
\* the favourite flag, another a prCode and an "iot_" name, and ids lists a
\* third
C16_Witness ==
    /\ last.op = "load"
    /\ outcome = "ok"
    /\ Len(last.favourites) = 1
    /\ \E p \in ReachablePrograms :
           /\ Ids(NewLoader, p).ok
           /\ Len(Ids(NewLoader, p).val) = 1
           /\ \E i, j \in 1..Len(maps[p._programs]) :
                  /\ Favoured(p, maps[p._programs][i].key)
                  /\ ListedWithFavourites(NewLoader, maps[p._programs][i].key,
                                          maps[p._programs][i].value)
                  /\ Contains(maps[p._programs][j].key, S_iot)
                  /\ "prCode" \in DOMAIN dicts[objects[maps[p._programs][j].value]._parameters]


(***************************************************************************)
(* SpecSkip: an appliance loads its commands once, with an empty history   *)
(* and a list of favourites of which some name a program that is no        *)
(* category of their command.                                              *)
(***************************************************************************)
MaxSkip == 2

SkipFavourites ==
    {Favourite(N_eco, "startProgram", P_ECO, <<>>),
     Favourite(N_wool, "startProgram", P_ECO, <<Entry("tempLevel", Forty)>>),
     Favourite(N_my, "startProgram", P_ECO, <<>>),
     Favourite(N_my, "startProgram", P_NONE, <<>>),
     Favourite(N_eco, "startProgram", P_NONE, <<Entry("tempLevel", Forty)>>)}

SkipFavouriteLists == UNION {[1..n -> SkipFavourites] : n \in 0..MaxSkip}

\* HonAppliance.load_commands; the appliance has no attributes
LoadSkip ==
    /\ last.op = "none"
    /\ \E api \in ApiData : \E favourites \in SkipFavouriteLists :
           Commit(Loaded(ParseCommands(NewLoader, api, <<>>, favourites)),
                  [op |-> "load", api |-> api, favourites |-> favourites])

SkipNext == LoadSkip

SpecSkip == LoaderInit /\ [][SkipNext]_vars


\* the payload as parse_commands parses it before the favourites
FreshParsed(api) == ParseAll(FreshLoader, api, 1)

\* the favourites of the list whose program is a category of their command
WithBase(api, favourites) == SelectSeq(favourites, LAMBDA f : BaseExists(api, f))

\* the appliance is as the loader ld leaves it
LeftBy(ld) ==
    /\ outcome = IF Failed(ld) THEN ld.err ELSE "ok"
    /\ objects = ld.objects
    /\ dicts = ld.dicts
    /\ maps = ld.maps
    /\ commands = ld.commands

\* C17: loading a favourite whose program name is not among the categories
\* of its command skips that favourite silently: no error is raised, the
\* categories map is unchanged by it, and the remaining favourites are
\* still loaded.  The appliance ends as it does when the list is loaded
\* without the favourites that lack their base.
C17_MissingBaseSkipped ==
    (last.op = "load" /\ HasEntry(FreshParsed(last.api)._commands, "startProgram")) =>
        LeftBy(Loaded(ParseCommands(FreshLoader, last.api, <<>>,
                                    WithBase(last.api, last.favourites))))

\* a favourite without base came first and was skipped, and the favourite
\* after it was loaded under its name
C17_Witness ==
    /\ last.op = "load"
    /\ outcome = "ok"
    /\ Len(last.favourites) = 2
    /\ ~BaseExists(last.api, last.favourites[1])
    /\ BaseExists(last.api, last.favourites[2])
    /\ FavouriteLoaded(last.favourites[2])


(***************************************************************************)
(* SpecTypology: an appliance loads one command, flat or as the category   *)
(* of a program, whose schema has leaves of the three typologies and       *)
(* leaves whose typology is absent, misspelt or no string.                 *)
(***************************************************************************)
MaxLeaves == 3

S_Range == <<"R", "a", "n", "g", "e">>

\* {"typology": typology, "defaultValue": "1"} in the group "parameters"
UntypedLeaf(name, typology) ==
    ParameterLeaf(name, [NoAttributes EXCEPT !.typology = typology,
                                             !.defaultValue = PyStr(<<"1">>)])

TypologyLeaves ==
    {RangeLeaf("tempLevel", Number(<<"3", "0">>), Number(<<"6", "0">>),
               Number(<<"1", "0">>)),
     Ancillary(FixedLeaf("remoteCtrValid", PyStr(<<"1">>), 1)),
     UntypedLeaf("delay", PyNone),
     Mandatory(UntypedLeaf("mode", PyStr(S_Range))),
     Ancillary(UntypedLeaf("lock", PyInt(1)))}

\* the schemas: the leaves in any order, no name twice
TypologySchemas ==
    {leaves \in UNION {[1..n -> TypologyLeaves] : n \in 0..MaxLeaves} :
        \A i, j \in 1..Len(leaves) : leaves[i].name = leaves[j].name => i = j}

TypologyApi ==
    {<<Entry("startProgram", CommandData(leaves))>> : leaves \in TypologySchemas}
    \cup {<<Entry("startProgram", CategoriesData(<<Entry(P_ECO, CommandData(leaves))>>))>> :
             leaves \in TypologySchemas}

\* HonAppliance.load_commands, with no history and no favourites
LoadTypology ==
    /\ last.op = "none"
    /\ \E api \in TypologyApi :
           Commit(Loaded(ParseCommands(NewLoader, api, <<>>, <<>>)),
                  [op |-> "load", api |-> api, favourites |-> <<>>])

TypologyNext == LoadTypology

SpecTypology == LoaderInit /\ [][TypologyNext]_vars


\* the leaves of the one command of the payload
LeavesOf(api) ==
    IF api[1].value.kind = "command" THEN api[1].value.leaves
    ELSE api[1].value.items[1].value.leaves

\* case "range" | "enum" | "fixed" of the typology
Recognized(leaf) ==
    leaf.attributes.typology \in {PyStr(S_range), PyStr(S_enum), PyStr(S_fixed)}

\* the parameter class the match statement picks for a typology
ClassOf(typology) ==
    CASE typology = PyStr(S_range) -> "range"
      [] typology = PyStr(S_enum) -> "enum"
      [] typology = PyStr(S_fixed) -> "fixed"
      [] OTHER -> "none"

\* the leaf is a parameter of the command id, of the class of its typology
\* and in its group
IsParameter(id, leaf) ==
    /\ leaf.name \in DOMAIN dicts[objects[id]._parameters]
    /\ dicts[objects[id]._parameters][leaf.name].kind = ClassOf(leaf.attributes.typology)
    /\ dicts[objects[id]._parameters][leaf.name].group = leaf.group

\* the leaf is kept in the additional data of the command id and is no
\* parameter of it
IsData(id, leaf) ==
    /\ leaf.name \in objects[id]._data
    /\ leaf.name \notin DOMAIN dicts[objects[id]._parameters]

\* C20: loading a command whose schema contains a parameter leaf with a
\* missing or unrecognized typology does not raise: that leaf is stored
\* under its name in the command's additional data, is not added to
\* parameters, and every other leaf of the command is still loaded as a
\* parameter.
C20_UntypedLeafIsData ==
    last.op = "load" =>
        /\ outcome = "ok"
        /\ Len(commands) = 1
        /\ \A i \in 1..Len(LeavesOf(last.api)) :
               IF Recognized(LeavesOf(last.api)[i])
               THEN /\ IsParameter(commands[1].value, LeavesOf(last.api)[i])
                    /\ LeavesOf(last.api)[i].name \notin objects[commands[1].value]._data
               ELSE IsData(commands[1].value, LeavesOf(last.api)[i])

\* a category whose schema has a leaf without typology between two leaves
\* with one: both are parameters, next to the program parameter
C20_Witness ==
    /\ last.op = "load"
    /\ outcome = "ok"
    /\ Len(commands) = 1
    /\ Len(LeavesOf(last.api)) = 3
    /\ Recognized(LeavesOf(last.api)[1])
    /\ ~Recognized(LeavesOf(last.api)[2])
    /\ Recognized(LeavesOf(last.api)[3])
    /\ objects[commands[1].value]._data = {LeavesOf(last.api)[2].name}
    /\ DOMAIN dicts[objects[commands[1].value]._parameters]
           = {LeavesOf(last.api)[1].name, LeavesOf(last.api)[3].name, "program"}


(***************************************************************************)
(* SpecRoundTrip: a HonCommand is built from a schema with a range, an     *)
(* enum and a fixed leaf; its parameter_groups are read, a second command  *)
(* is built from the same schema and every grouped value is assigned to    *)
(* the parameter of the same name.                                         *)
(***************************************************************************)

\* HonCommand.parameter_groups: the intern_value of each parameter under
\* its group and its name
ParameterGroups(ps) ==
    [name \in DOMAIN ps |-> [group |-> ps[name].group, value |-> InternValue(ps[name])]]

\* the keys of parameter_groups in the order of its items: the groups as
\* they first appear, and in each group the names in the order of the
\* parameters
RECURSIVE GroupedOrder(_, _, _)
GroupedOrder(ps, order, i) ==
    IF i > Len(order) THEN <<>>
    ELSE IF \E j \in 1..(i - 1) : ps[order[j]].group = ps[order[i]].group
    THEN GroupedOrder(ps, order, i + 1)
    ELSE SelectSeq(order, LAMBDA name : ps[name].group = ps[order[i]].group)
             \o GroupedOrder(ps, order, i + 1)

\* command.parameters[name].value = value for each item of the groups
RECURSIVE AssignGroups(_, _, _, _)
AssignGroups(st, names, groups, i) ==
    IF Failed(st) \/ i > Len(names) THEN st
    ELSE AssignGroups(SetValue(st, names[i], PyStr(groups[names[i]].value), 0),
                      names, groups, i + 1)

RoundSchemas ==
    {<<ParameterLeaf("tempLevel", [r EXCEPT !.typology = PyStr(S_range)]),
       Ancillary(ParameterLeaf("mode", [e EXCEPT !.typology = PyStr(S_enum)])),
       FixedLeaf("fix", x, 0)>> :
        r \in {a \in RangeSchemas : a.incrementValue = Numeral(PyInt(1))},
        e \in EnumSchemas, x \in {PyNone, PyStr(<<"x">>)}}

\* HonCommand(name, schema, appliance)
RoundInit ==
    /\ \E schema \in RoundSchemas :
           /\ params = LoadParameters(EmptyCommand, schema).params
           /\ last = [op |-> "construct", schema |-> schema,
                      order |-> LoadParameters(EmptyCommand, schema).order]
    /\ fired = <<>>
    /\ outcome = "ok"
    /\ pre = params
    /\ NoAppliance

\* groups = first.parameter_groups; second = HonCommand(name, schema,
\* appliance); second.parameters[name].value = value for the grouped values
RoundTrip ==
    /\ last.op = "construct"
    /\ Finish(AssignGroups(Begin(LoadParameters(EmptyCommand, last.schema).params),
                           GroupedOrder(params, last.order, 1),
                           ParameterGroups(params), 1),
              [op |-> "round_trip", schema |-> last.schema, order |-> last.order])

RoundNext == RoundTrip

SpecRoundTrip == RoundInit /\ [][RoundNext]_vars

\* C21: for every schema, building a Command, reading parameter_groups,
\* building a second Command from the same schema and assigning each
\* grouped value to the same-named parameter succeeds and yields a
\* parameter_groups map equal to the first one.
C21_GroupsRoundTrip ==
    last.op = "round_trip" =>
        /\ outcome = "ok"
        /\ ParameterGroups(params) = ParameterGroups(pre)


(***************************************************************************)
(* SpecOptions: two parameters a and b, each a range, an enum or a fixed   *)
(* parameter built from a schema leaf, and the calls a.more_options(b)     *)
(* and b.more_options(a).                                                  *)
(***************************************************************************)

\* Parameter.more_options, and the override of FixedParameter; the result
\* is the key of the parameter returned
MoreOptions(ps, self, other) ==
    IF ps[self].kind = "fixed" /\ ps[other].kind # "fixed" THEN self
    ELSE IF Len(Values(ps[other])) > Len(Values(ps[self])) THEN other
    ELSE self

OptionParameters(key) ==
    {RangeParameter(key, a, "parameters") : a \in RangeSchemas}
        \cup {EnumParameter(key, a, "parameters") :
                 a \in {e \in EnumSchemas : e.defaultValue \in {PyNone, PyStr(<<"1">>)}}}
        \cup {EnumParameter(key, [NoAttributes EXCEPT !.hasEnumValues = TRUE], "parameters")}
        \cup {FixedParameter(key, [NoAttributes EXCEPT !.fixedValue = x], "parameters") :
                 x \in {PyNone, PyStr(<<"x">>)}}

OptionsInit ==
    /\ \E a \in OptionParameters("a") : \E b \in OptionParameters("b") :
           params = [k \in {"a", "b"} |-> IF k = "a" THEN a ELSE b]
    /\ fired = <<>>
    /\ outcome = "ok"
    /\ last = NoCall
    /\ pre = params
    /\ NoAppliance

\* self.more_options(other)
MoreOptionsCall ==
    /\ last.op = "none"
    /\ \E self \in {"a", "b"} :
           Finish(Begin(params),
                  [op |-> "more_options", key |-> self,
                   arg |-> PyStr(<<MoreOptions(params, self, CHOOSE k \in {"a", "b"} : k # self)>>)])

OptionsNext == MoreOptionsCall

SpecOptions == OptionsInit /\ [][OptionsNext]_vars

\* the key of the parameter the call returned
Returned == last.arg.s[1]

\* C22: a.more_options(b) returns the parameter with the larger number of
\* allowed values; when exactly one of a and b is a FixedParameter the
\* result is the other one, whichever of the two is the receiver of the
\* call.
C22_MoreOptionsPicksLarger ==
    last.op = "more_options" =>
        /\ \A k \in {"a", "b"} : Len(Values(params[Returned])) >= Len(Values(params[k]))
        /\ \A k \in {"a", "b"} :
               (params[k].kind = "fixed" /\ \E j \in {"a", "b"} : params[j].kind # "fixed")
                   => Returned # k


(***************************************************************************)
(* SpecIntern: one EnumParameter built from a schema leaf, then any        *)
(* sequence of value assignments through the setter.                       *)
(***************************************************************************)
InternNext == EnumAssign

SpecIntern == EnumInit /\ [][InternNext]_vars

\* the raw tokens of the schema of p: its enumValues and its defaultValue
SchemaTokens(p) ==
    {p._values[i] : i \in 1..Len(p._values)}
        \cup (IF Truthy(p._default) THEN {p._default} ELSE {})

\* C23: for an EnumParameter, intern_value is always a raw token of the
\* schema (an element of enumValues or the raw default), namely the one
\* whose normalised form equals value; this holds after construction and
\* after value has been assigned through the setter.
C23_InternValueIsRawToken ==
    /\ \E token \in SchemaTokens(params["mode"]) : Str(token) = InternValue(params["mode"])
    /\ PyStr(clean_value(PyStr(InternValue(params["mode"])))) = Value(params["mode"])


\* C24: RangeParameter.apply_fixed_value(v) never increases min and never
\* decreases max: over any sequence of apply_fixed_value calls min is
\* non-increasing and max is non-decreasing, and min <= v <= max holds
\* after each call.
C24_FixedValueOnlyWidens ==
    [][last'.op = "apply_fixed_value" =>
           /\ params'["tempLevel"].min <= params["tempLevel"].min
           /\ params'["tempLevel"].max >= params["tempLevel"].max
           /\ ToFloat(last'.arg).ok =>
                  /\ params'["tempLevel"].min <= ToFloat(last'.arg).val.h
                  /\ ToFloat(last'.arg).val.h <= params'["tempLevel"].max]_vars

\* apply_fixed_value of a number below min has returned and min is lower
\* than it was before the call, max is as it was
C24_Witness ==
    /\ last.op = "apply_fixed_value"
    /\ last.key = "tempLevel"
    /\ outcome = "ok"
    /\ params["tempLevel"].kind = "range"
    /\ params["tempLevel"].min < pre["tempLevel"].min
    /\ params["tempLevel"].min = ToFloat(last.arg).val.h
    /\ params["tempLevel"].max = pre["tempLevel"].max


(***************************************************************************)
(* pyhon/diagnostic/_dict_tools.py: DictTool.  A JSON-like value is a node *)
(* [kind, val, items]: kind "prim" with its value in val, kind "dict" with *)
(* items [key, value] in insertion order, kind "list" with items [key,     *)
(* value] whose keys are the indices.  Keys are PyStr or PyInt values.     *)
(* The flattened form is an ordered dict from paths (tuples of keys) to    *)
(* leaves: a list of [key, value].                                         *)
(***************************************************************************)
JsonPrim(x) == [kind |-> "prim", val |-> x, items |-> <<>>]

JsonDict(items) == [kind |-> "dict", val |-> PyNone, items |-> items]

JsonList(values) ==
    [kind |-> "list", val |-> PyNone,
     items |-> [i \in 1..Len(values) |-> [key |-> PyInt(i - 1), value |-> values[i]]]]

\* a leaf_items that yields nothing for an empty dict or list
RECURSIVE LeafItemsNoEmpty(_)
LeafItemsNoEmpty(data) ==
    IF data.kind \in {"dict", "list"}
    THEN LET RECURSIVE Under(_)
             Under(i) ==
                 IF i > Len(data.items) THEN <<>>
                 ELSE [j \in 1..Len(LeafItemsNoEmpty(data.items[i].value)) |->
                          [key |-> <<data.items[i].key>>
                                       \o LeafItemsNoEmpty(data.items[i].value)[j].key,
                           value |-> LeafItemsNoEmpty(data.items[i].value)[j].value]]
                      \o Under(i + 1)
         IN Under(1)
    ELSE <<[key |-> <<>>, value |-> data]>>

\* the items one child contributes: its key in front of each of its paths
Prefixed(key, sub) ==
    [j \in 1..Len(sub) |-> [key |-> <<key>> \o sub[j].key, value |-> sub[j].value]]

\* DictTool.__leaf_items, as the list of what the generator yields
RECURSIVE LeafItems(_)
LeafItems(data) ==
    IF data.kind \in {"dict", "list"} /\ Len(data.items) > 0
    THEN LET RECURSIVE Under(_)
             Under(i) ==
                 IF i > Len(data.items) THEN <<>>
                 ELSE Prefixed(data.items[i].key, LeafItems(data.items[i].value))
                          \o Under(i + 1)
         IN Under(1)
    ELSE <<[key |-> <<>>, value |-> data]>>

\* {k: v for k, v in items}
RECURSIVE DictOf(_, _)
DictOf(items, i) ==
    IF i = 0 THEN <<>>
    ELSE DictSet(DictOf(items, i - 1), items[i].key, items[i].value)

\* DictTool.load
Load(data) == [loaded |-> TRUE, items |-> DictOf(LeafItems(data), Len(LeafItems(data)))]

\* groupby(data.items(), key=lambda x: x[0][0]) with {k[1:]: v for k, v in
\* group}: the runs of consecutive items with the same first key
RECURSIVE Runs(_, _)
Runs(items, i) ==
    IF i > Len(items) THEN <<>>
    ELSE LET first == items[i].key[1]
             RECURSIVE End(_)
             End(j) == IF j < Len(items) /\ items[j + 1].key[1] = first
                       THEN End(j + 1) ELSE j
             run == [j \in 1..(End(i) - i + 1) |->
                        [key |-> Tail(items[i + j - 1].key),
                         value |-> items[i + j - 1].value]]
         IN <<[key |-> first, value |-> DictOf(run, Len(run))]>> \o Runs(items, End(i) + 1)

JsonError(e) == [kind |-> e, val |-> PyNone, items |-> <<>>]

\* DictTool.__inflate; x[0][0] of an empty path is an IndexError
RECURSIVE Inflate(_)
Inflate(data) ==
    IF Len(data) = 1 /\ data[1].key = <<>> THEN data[1].value
    ELSE IF \E i \in 1..Len(data) : data[i].key = <<>> THEN JsonError("IndexError")
    ELSE LET groups == DictOf(Runs(data, 1), Len(Runs(data, 1)))
             inflated == [i \in 1..Len(groups) |->
                             [key |-> groups[i].key, value |-> Inflate(groups[i].value)]]
         IN IF \E i \in 1..Len(inflated) : inflated[i].value.kind \notin {"prim", "dict", "list"}
            THEN JsonError("IndexError")
            ELSE IF \A i \in 1..Len(inflated) : inflated[i].key.t = "int"
            THEN JsonList([i \in 1..Len(inflated) |-> inflated[i].value])
            ELSE JsonDict(inflated)

\* ==: dicts are equal whatever the order of their items, lists item by item
RECURSIVE JsonEq(_, _)
JsonEq(x, y) ==
    /\ x.kind = y.kind
    /\ x.kind = "prim" => x.val = y.val
    /\ Len(x.items) = Len(y.items)
    /\ x.kind = "list" =>
           \A i \in 1..Len(x.items) : JsonEq(x.items[i].value, y.items[i].value)
    /\ x.kind = "dict" =>
           \A i \in 1..Len(x.items) :
               \E j \in 1..Len(y.items) :
                   /\ x.items[i].key = y.items[j].key
                   /\ JsonEq(x.items[i].value, y.items[j].value)

(***************************************************************************)
(* SpecJson: a DictTool loads a JSON-like value of at most MaxNodes nodes  *)
(* and hands back the result.                                              *)
(***************************************************************************)
MaxNodes == 4

JsonKeys == {PyStr(<<"a">>), PyStr(<<"b">>)}

JsonLeaves == {JsonPrim(PyInt(1)), JsonPrim(PyStr(<<"x">>)), JsonDict(<<>>), JsonList(<<>>)}

\* the values of at most n nodes, and the lists of values of at most n
\* nodes together
RECURSIVE Json(_)
RECURSIVE JsonForests(_)
Json(n) ==
    IF n <= 0 THEN {}
    ELSE JsonLeaves
         \cup {JsonList(f) : f \in JsonForests(n - 1) \ {<<>>}}
         \cup UNION {{JsonDict([i \in 1..Len(f) |-> [key |-> ks[i], value |-> f[i]]]) :
                         ks \in {s \in [1..Len(f) -> JsonKeys] :
                                    \A i, j \in 1..Len(f) : s[i] = s[j] => i = j}} :
                     f \in JsonForests(n - 1) \ {<<>>}}

JsonForests(n) ==
    {<<>>} \cup UNION {{<<t>> \o f : t \in Json(j), f \in JsonForests(n - j)} : j \in 1..n}

JsonInit ==
    /\ params = <<>>
    /\ fired = <<>>
    /\ outcome = "ok"
    /\ last = NoCall
    /\ pre = <<>>
    /\ NoAppliance

\* tool.load(data)
LoadData ==
    /\ ~__data.loaded
    /\ last.op = "none"
    /\ \E data \in Json(MaxNodes) :
           /\ __data' = Load(data)
           /\ last' = [op |-> "load", arg |-> data]
           /\ outcome' = "ok"
           /\ UNCHANGED <<params, fired, pre, objects, dicts, maps, commands,
                          _attributes, now, _tokens>>

\* tool.get_result(): the result is kept in last.ret; without data the
\* property _data raises
GetResult ==
    /\ last.op = "load"
    /\ IF __data.loaded
       THEN /\ last' = [op |-> "get_result", arg |-> last.arg, ret |-> Inflate(__data.items)]
            /\ outcome' = IF Inflate(__data.items).kind \in {"prim", "dict", "list"}
                          THEN "ok" ELSE Inflate(__data.items).kind
       ELSE /\ last' = [op |-> "get_result", arg |-> last.arg, ret |-> JsonError("ValueError")]
            /\ outcome' = "ValueError"
    /\ __data' = NoData
    /\ UNCHANGED <<params, fired, pre, objects, dicts, maps, commands,
                   _attributes, now, _tokens>>

JsonNext == LoadData \/ GetResult

SpecJson == JsonInit /\ [][JsonNext]_vars

\* C25: for every JSON-like value d built from dicts with string keys,
\* lists and primitives (including empty dicts and empty lists at any
\* depth), DictTool().load(d).get_result() equals d.
C25_LoadGetResultRoundTrip ==
    last.op = "get_result" =>
        /\ outcome = "ok"
        /\ JsonEq(last.ret, last.arg)

\* the result of a value with an empty dict and an empty list below its
\* top has been handed back
C25_Witness ==
    /\ last.op = "get_result"
    /\ outcome = "ok"
    /\ last.arg.kind = "dict"
    /\ \E i \in 1..Len(last.arg.items) :
           /\ last.arg.items[i].value.kind = "list"
           /\ \E j \in 1..Len(last.arg.items[i].value.items) :
                  last.arg.items[i].value.items[j].value = JsonDict(<<>>)
           /\ \E j \in 1..Len(last.arg.items[i].value.items) :
                  last.arg.items[i].value.items[j].value = JsonList(<<>>)
    /\ last.ret = last.arg


(***************************************************************************)
(* pyhon/apis/auth.py: Authenticator.  _tokens is [access_token, id_token, *)
(* refresh_token, created_at]; "" stands for None and for the empty        *)
(* string, created_at and now are in hours.  What the servers answer is an *)
(* input of each call: the answer to the refresh request, and a script of  *)
(* the answers to the requests of a login.  A token dict of a response is  *)
(* [access_token, id_token, refresh_token, other]: each token is "absent", *)
(* "" or a string, other tells whether another field of _Tokens is there.  *)
(* A call under way is [tokens, err].                                     *)
(***************************************************************************)
TOKEN_LIFETIME == 8

TOKEN_LIFETIME_WARNING_TIME == TOKEN_LIFETIME - 1

\* _Tokens(refresh_token=...) created at t
NewTokens(refresh_token, t) ==
    [access_token |-> "", id_token |-> "", refresh_token |-> refresh_token,
     created_at |-> t]

\* an initialized that looks at the access token only
InitializedByAccess(tokens) == tokens.access_token # ""

\* _Tokens.initialized
Initialized(tokens) ==
    tokens.access_token # "" /\ tokens.id_token # "" /\ tokens.refresh_token # ""

\* _Tokens.expires_soon
ExpiresSoon(tokens, t) == t >= tokens.created_at + TOKEN_LIFETIME_WARNING_TIME

\* _Tokens.expired
Expired(tokens, t) == t >= tokens.created_at + TOKEN_LIFETIME

Field(x) == IF x = "absent" THEN "" ELSE x

\* _Tokens.from_dict: [ok, tokens]; not ok is the ValueError
FromDict(data, t) ==
    [ok |-> ~(data.access_token = "absent" /\ data.id_token = "absent"
                 /\ data.refresh_token = "absent" /\ ~data.other),
     tokens |-> [access_token |-> Field(data.access_token),
                 id_token |-> Field(data.id_token),
                 refresh_token |-> Field(data.refresh_token),
                 created_at |-> t]]

\* _Tokens.from_html: without the redirect URI a ValueError as well
FromHtml(html, t) ==
    IF html.redirect THEN FromDict(html.data, t)
    ELSE [ok |-> FALSE, tokens |-> NewTokens("", t)]

Going(tokens) == [tokens |-> tokens, err |-> "none"]

\* Authenticator._refresh: a ClientResponseError is logged, anything else
\* goes on to the caller
Refresh(tokens, answer, t) ==
    CASE answer.kind = "ClientResponseError" -> Going(tokens)
      [] answer.kind = "json" ->
             IF FromDict(answer.data, t).ok
             THEN Going([FromDict(answer.data, t).tokens
                           EXCEPT !.refresh_token = tokens.refresh_token])
             ELSE Raise(Going(tokens), "ValueError")
      [] OTHER -> Raise(Going(tokens), answer.kind)

\* Authenticator._authorize, _login and _retrieve_tokens with the answers
\* of the script
RetrieveTokens(script, t) ==
    CASE script.authorize.kind # "html" -> Raise(Going(NewTokens("", t)), script.authorize.kind)
      [] FromHtml(script.authorize, t).ok -> Going(FromHtml(script.authorize, t).tokens)
      [] ~script.authorize.href -> Raise(Going(NewTokens("", t)), "HonAuthenticationError")
      [] script.login # "json" -> Raise(Going(NewTokens("", t)), script.login)
      [] script.redirects # "html" -> Raise(Going(NewTokens("", t)), script.redirects)
      [] script.tokens.kind # "html" -> Raise(Going(NewTokens("", t)), script.tokens.kind)
      [] FromHtml(script.tokens, t).ok -> Going(FromHtml(script.tokens, t).tokens)
      [] OTHER -> Raise(Going(NewTokens("", t)), "ValueError")

\* the body of the history tracker in _ensure_authenticated
Authenticate(tokens, answer, script, t) ==
    LET refreshed == IF tokens.refresh_token # "" THEN Refresh(tokens, answer, t)
                     ELSE Going(tokens)
    IN IF Failed(refreshed) \/ Initialized(refreshed.tokens) THEN refreshed
       ELSE RetrieveTokens(script, t)

\* the check after the history tracker
Authenticated(st) ==
    IF ~Failed(st) /\ ~Initialized(st.tokens) THEN Raise(st, "HonAuthenticationError")
    ELSE st

\* Authenticator._ensure_authenticated
EnsureAuthenticated(tokens, force, answer, script, t) ==
    IF ~Initialized(tokens) \/ ExpiresSoon(tokens, t) \/ force
    THEN Authenticated(Authenticate(tokens, answer, script, t))
    ELSE Going(tokens)

(***************************************************************************)
(* SpecAuth: an Authenticator made with or without a refresh token, then   *)
(* any sequence of _ensure_authenticated calls, forced or not, against     *)
(* servers that answer or fail, while the hours pass.                      *)
(***************************************************************************)
MaxHours == 15

HourSteps == {TOKEN_LIFETIME_WARNING_TIME, TOKEN_LIFETIME}

TokenDicts ==
    {[access_token |-> "a", id_token |-> "i", refresh_token |-> "r", other |-> FALSE],
     [access_token |-> "a", id_token |-> "i", refresh_token |-> "absent", other |-> FALSE],
     [access_token |-> "a", id_token |-> "", refresh_token |-> "r", other |-> FALSE],
     [access_token |-> "absent", id_token |-> "absent", refresh_token |-> "absent",
      other |-> TRUE],
     [access_token |-> "absent", id_token |-> "absent", refresh_token |-> "absent",
      other |-> FALSE]}

NoTokenDict ==
    [access_token |-> "absent", id_token |-> "absent", refresh_token |-> "absent",
     other |-> FALSE]

RefreshAnswers ==
    {[kind |-> "ClientResponseError", data |-> NoTokenDict],
     [kind |-> "ClientConnectionError", data |-> NoTokenDict]}
        \cup {[kind |-> "json", data |-> d] : d \in TokenDicts}

\* a page whose request failed, and a page with a link and no tokens
FailedPage ==
    [kind |-> "ClientResponseError", redirect |-> FALSE, data |-> NoTokenDict,
     href |-> FALSE]

LoginPage == [kind |-> "html", redirect |-> FALSE, data |-> NoTokenDict, href |-> TRUE]

Pages ==
    {[kind |-> "html", redirect |-> TRUE, data |-> d, href |-> h] :
        d \in TokenDicts, h \in BOOLEAN}
        \cup {[kind |-> "html", redirect |-> FALSE, data |-> NoTokenDict, href |-> FALSE],
              LoginPage, FailedPage}

\* the later answers do not matter to a login that ends before them
LoginScripts ==
    {[authorize |-> a, login |-> "json", redirects |-> "html", tokens |-> FailedPage] :
        a \in Pages}
        \cup {[authorize |-> LoginPage, login |-> "json", redirects |-> "html",
               tokens |-> p] : p \in Pages}
        \cup {[authorize |-> LoginPage, login |-> "KeyError", redirects |-> "html",
               tokens |-> FailedPage],
              [authorize |-> LoginPage, login |-> "json",
               redirects |-> "HonAuthenticationError", tokens |-> FailedPage]}

AuthInit ==
    /\ params = <<>>
    /\ fired = <<>>
    /\ outcome = "ok"
    /\ last = NoCall
    /\ objects = <<>>
    /\ dicts = <<>>
    /\ maps = <<>>
    /\ commands = <<>>
    /\ _attributes = <<>>
    /\ now = 0
    /\ __data = NoData
    /\ \E refresh_token \in {"", "r"} : _tokens = NewTokens(refresh_token, 0)
    /\ pre = _tokens

\* await authenticator._ensure_authenticated(force)
EnsureAuthenticatedCall ==
    \E force \in BOOLEAN : \E answer \in RefreshAnswers : \E script \in LoginScripts :
        /\ _tokens' = EnsureAuthenticated(_tokens, force, answer, script, now).tokens
        /\ outcome' = IF Failed(EnsureAuthenticated(_tokens, force, answer, script, now))
                      THEN EnsureAuthenticated(_tokens, force, answer, script, now).err
                      ELSE "ok"
        /\ last' = [op |-> "_ensure_authenticated", force |-> force,
                    refresh |-> answer.kind]
        /\ pre' = _tokens
        /\ UNCHANGED <<params, fired, objects, dicts, maps, commands, _attributes,
                       now, __data>>

\* time passes
HoursPass ==
    \E d \in HourSteps :
        /\ now + d <= MaxHours
        /\ now' = now + d
        /\ UNCHANGED <<params, fired, outcome, last, pre, objects, dicts, maps,
                       commands, _attributes, __data, _tokens>>

AuthNext == EnsureAuthenticatedCall \/ HoursPass

SpecAuth == AuthInit /\ [][AuthNext]_vars

\* C26: whenever _ensure_authenticated returns without raising,
\* access_token, id_token and refresh_token are all set, after every
\* sequence of successful and failed refresh and login attempts and for
\* every value of force.
C26_AuthenticatedHasTokens ==
    (last.op = "_ensure_authenticated" /\ outcome = "ok") =>
        /\ _tokens.access_token # ""
        /\ _tokens.id_token # ""
        /\ _tokens.refresh_token # ""

\* a forced call on tokens about to expire whose refresh failed has
\* returned, with the tokens it had
C26_Witness ==
    /\ last.op = "_ensure_authenticated"
    /\ outcome = "ok"
    /\ last.force
    /\ last.refresh = "ClientResponseError"
    /\ ExpiresSoon(pre, now)
    /\ _tokens = pre
    /\ _tokens.access_token # ""


(***************************************************************************)
(* SpecParse: a HonRuleSet is made from a rule dict for tempLevel whose    *)
(* conditions on mode have one or two branches, each a value or a nested   *)
(* condition on opt, under single and multi-value triggers.                *)
(***************************************************************************)
Fifty == PyStr(<<"5", "0">>)

\* {"@opt": {value: fixed}}
OnOpt(value, fixed) ==
    Dict(<<[k |-> <<"@", "opt">>, v |-> Dict(<<[k |-> value, v |-> Leaf(fixed)]>>)]>>)

ParseBranches ==
    {Leaf(Forty), Leaf(Fifty), OnOpt(<<"1">>, Forty), OnOpt(<<"0">>, Fifty),
     OnOpt(<<"0", "|", "1">>, Forty)}

ParseTriggerValues == {<<"1">>, <<"2">>, <<"1", "|", "2">>}

\* {"tempLevel": {"@mode": {value: branch, ...}}}
ParseDicts ==
    {Dict(<<[k |-> <<"tempLevel">>, v |->
               Dict(<<[k |-> <<"@", "mode">>, v |-> Dict(items)]>>)]>>) :
        items \in {<<[k |-> a, v |-> x]>> : a \in ParseTriggerValues, x \in ParseBranches}
                  \cup {items \in {<<[k |-> a, v |-> x], [k |-> b, v |-> y]>> :
                                      a \in ParseTriggerValues, b \in ParseTriggerValues,
                                      x \in ParseBranches, y \in ParseBranches} :
                           items[1].k # items[2].k}}

\* the rules of a rule set, each with the extras dict it refers to
Parsed(rs) == [i \in 1..Len(AllRules(rs.rules)) |-> Resolve(rs, AllRules(rs.rules)[i])]

\* HonRuleSet(command, rule)
NewRuleSet ==
    /\ last.op = "none"
    /\ \E rule \in ParseDicts :
           /\ last' = [op |-> "HonRuleSet", rule |-> rule, ret |-> Parsed(HonRuleSet(rule))]
           /\ outcome' = IF Failed(HonRuleSet(rule)) THEN HonRuleSet(rule).err ELSE "ok"
           /\ UNCHANGED <<params, fired, pre>>
           /\ UNCHANGED hvars

ParseNext == NewRuleSet

SpecParse == JsonInit /\ [][ParseNext]_vars

\* what a rule is about: its trigger, its target, the value it fixes and
\* the pairs of its extras
Carried(rule) ==
    [trigger_key |-> rule.trigger_key, trigger_value |-> rule.trigger_value,
     param_key |-> rule.param_key, fixedValue |-> rule.param_data.fixedValue,
     extras |-> {<<rule.extras.items[i].key, rule.extras.items[i].value>> :
                    i \in 1..Len(rule.extras.items)}]

\* the leaves of a tree of conditions, each with the (trigger key, trigger
\* value) pairs of the conditions that enclose it
RECURSIVE Enclosed(_, _, _, _)
Enclosed(param_key, trigger_key, trigger_data, enclosing) ==
    UNION {UNION {IF trigger_data.items[i].v.d
                  THEN UNION {Enclosed(param_key, NameOf(trigger_data.items[i].v.items[k].k),
                                       trigger_data.items[i].v.items[k].v,
                                       enclosing \cup {<<trigger_key, value>>}) :
                                 k \in 1..Len(trigger_data.items[i].v.items)}
                  ELSE {[trigger_key |-> trigger_key, trigger_value |-> value,
                         param_key |-> param_key,
                         fixedValue |-> trigger_data.items[i].v.val,
                         extras |-> enclosing]} :
                     value \in {Split(trigger_data.items[i].k, "|")[j] :
                                   j \in 1..Len(Split(trigger_data.items[i].k, "|"))}} :
              i \in 1..Len(trigger_data.items)}

\* C27: each rule parsed from a nested rule dict carries as extras exactly
\* the (trigger key, trigger value) pairs of the conditions that enclose
\* its leaf; parsing a later sibling branch, or a later alternative of a
\* multi-value trigger "a|b", never changes the extras of a rule created
\* earlier.
C27_ExtrasAreEnclosingConditions ==
    (last.op = "HonRuleSet" /\ outcome = "ok") =>
        {Carried(last.ret[i]) : i \in 1..Len(last.ret)}
            = Enclosed("tempLevel", "mode", last.rule.items[1].v.items[1].v, {})


\* a rule forcing tempLevel to 40 is registered on the parameter named key
\* for the token "1", with the one side-condition other = "1"
RegisteredWithSide(ps, key, other) ==
    \E i \in 1..Len(ps[key]._triggers) :
        /\ ps[key]._triggers[i].token = <<"1">>
        /\ \E j \in 1..Len(ps[key]._triggers[i].cbs) :
               LET rule == ps[key]._triggers[i].cbs[j].rule
               IN /\ ~rule.extras.none
                  /\ rule.extras.items = <<[key |-> other, value |-> <<"1">>]>>
                  /\ rule.param_key = "tempLevel"
                  /\ rule.param_data.fixedValue = Forty

\* C28: after patch(), a rule with trigger (A, a) and extras {B: b} is
\* registered as a trigger on A for value a with side-condition B = b and
\* also as a trigger on B for value b with side-condition A = a, both with
\* the same target and effect; consequently, once A = a and B = b both hold
\* the effect has been applied, whichever of A and B was assigned last.
C28_RegisteredUnderBothKeys ==
    (RegisteredWithSide(params, "opt", "mode") \/ RegisteredWithSide(params, "mode", "opt")) =>
        /\ RegisteredWithSide(params, "opt", "mode")
        /\ RegisteredWithSide(params, "mode", "opt")
        /\ (/\ last.op = "set"
            /\ last.key \in {"mode", "opt"}
            /\ outcome = "ok"
            /\ Str(Value(params["mode"])) = <<"1">>
            /\ Str(Value(params["opt"])) = <<"1">>) =>
               Str(Value(params["tempLevel"])) = Str(Forty)


(***************************************************************************)
(* SpecCascade: a command with the Fixed parameters a, b, c and d, each    *)
(* "0", and one rule leaf whose rules force a parameter to "1" or "2" when *)
(* another one becomes "1", without side-conditions: b follows a, c        *)
(* follows a or b, d follows a, b or c, and a may follow d.  Then any      *)
(* sequence of value assignments.  Several rules can wait on one value,    *)
(* and a forced parameter can fire rules of its own.                       *)
(***************************************************************************)
\* target: {"@source": {"1": fixed}}
Follows(target, source, fixed) ==
    [k |-> <<target>>, v |->
        Dict(<<[k |-> <<"@", source>>, v |->
                  Dict(<<[k |-> <<"1">>, v |-> Leaf(fixed)]>>)]>>)]

CascadeValues == {PyStr(<<"1">>), PyStr(<<"2">>)}

CascadeRules ==
    {<<Follows("b", "a", PyStr(<<"1">>)), Follows("c", sc, vc),
       Follows("d", sd, PyStr(<<"1">>))>> \o back :
        vc \in CascadeValues, sc \in {"a", "b"}, sd \in {"a", "b", "c"},
        back \in {<<>>} \cup {<<Follows("a", "d", va)>> : va \in CascadeValues}}

CascadeSchemas ==
    {<<FixedLeaf("a", PyStr(<<"0">>), 0), FixedLeaf("b", PyStr(<<"0">>), 0),
       FixedLeaf("c", PyStr(<<"0">>), 0), FixedLeaf("d", PyStr(<<"0">>), 0),
       RuleLeaf("rules", Dict(rules))>> : rules \in CascadeRules}

CascadeInit ==
    /\ \E schema \in CascadeSchemas :
           /\ params = LoadParameters(EmptyCommand, schema).params
           /\ fired = LoadParameters(EmptyCommand, schema).fired
           /\ outcome = IF Failed(LoadParameters(EmptyCommand, schema))
                        THEN LoadParameters(EmptyCommand, schema).err ELSE "ok"
    /\ last = [op |-> "construct", key |-> "", arg |-> PyNone]
    /\ pre = params
    /\ NoAppliance

CascadeAssign ==
    /\ Constructed
    /\ \E key \in {"a", "b", "c", "d"} : \E v \in CascadeValues : Assign(key, v)

CascadeNext == CascadeAssign

SpecCascade == CascadeInit /\ [][CascadeNext]_vars

\* the rule of the i-th callback invoked by the last call
RuleAt(i) == CallbackOf(pre[fired[i].on], fired[i].id).rule

\* the ids of the callbacks registered on a parameter for a value
Due(p, value) ==
    UNION {{p._triggers[i].cbs[j].id : j \in 1..Len(p._triggers[i].cbs)} :
              i \in {k \in 1..Len(p._triggers) : p._triggers[k].token = Str(value)}}

\* the invocations at the given depth that follow position i before any
\* invocation less deep: with i = 0 and depth 0, those of the assignment
\* itself; otherwise, with the depth after that of i, those made inside the
\* i-th invocation
InvokedWithin(i, depth) ==
    {k \in (i + 1)..Len(fired) :
        /\ fired[k].depth = depth
        /\ \A j \in (i + 1)..(k - 1) : fired[j].depth >= depth}

\* C29: when a value assignment fires rule effects, every effect of the
\* cascade, including the effects fired by parameters that earlier effects
\* changed, has been applied when the assignment returns, and effects run
\* depth-first: the cascade started by one trigger completes before the
\* next trigger registered for the same value runs.
C29_CascadeInlineDepthFirst ==
    (last.op = "set" /\ outcome = "ok") =>
        /\ {fired[k].id : k \in InvokedWithin(0, 0)} = Due(pre[last.key], last.arg)
        /\ Cardinality(InvokedWithin(0, 0)) = Cardinality(Due(pre[last.key], last.arg))
        /\ \A k \in InvokedWithin(0, 0) : fired[k].on = last.key
        /\ \A i \in 1..Len(fired) :
               /\ \/ Str(Value(params[RuleAt(i).param_key]))
                         = Str(RuleAt(i).param_data.fixedValue)
                  \/ \E j \in (i + 1)..Len(fired) : RuleAt(j).param_key = RuleAt(i).param_key
               /\ {fired[k].id : k \in InvokedWithin(i, fired[i].depth + 1)}
                      = Due(pre[RuleAt(i).param_key], RuleAt(i).param_data.fixedValue)
               /\ Cardinality(InvokedWithin(i, fired[i].depth + 1))
                      = Cardinality(Due(pre[RuleAt(i).param_key],
                                        RuleAt(i).param_data.fixedValue))
               /\ \A k \in InvokedWithin(i, fired[i].depth + 1) :
                      fired[k].on = RuleAt(i).param_key
               /\ fired[i].depth > 0 =>
                      \E j \in 1..(i - 1) : i \in InvokedWithin(j, fired[j].depth + 1)

\* an assignment returned whose first effect changed a parameter that fired
\* an effect of its own, before the next effect waiting on the assigned
\* value ran
C29_Witness ==
    /\ last.op = "set"
    /\ outcome = "ok"
    /\ Len(fired) >= 3
    /\ fired[1].depth = 0
    /\ fired[2].depth = 1
    /\ fired[Len(fired)].depth = 0
    /\ Str(Value(params[RuleAt(2).param_key])) = Str(RuleAt(2).param_data.fixedValue)
    /\ params[RuleAt(2).param_key] # pre[RuleAt(2).param_key]


\* C30: a value assignment that raises a validation error leaves the
\* command unchanged: the assigned parameter keeps its previous value,
\* bounds and allowed values, and no other parameter has been changed by a
\* partially executed trigger cascade or by a rule effect
\* (apply_fixed_value, apply_rule) that itself failed.
C30_FailedAssignmentChangesNothing ==
    (last.op = "set" /\ outcome = "ValueError") => params = pre


(***************************************************************************)
(* SpecCycle: a command with the parameters a and b, each Fixed, Range or  *)
(* Enum, and the two rules 'a = x forces b := y' and 'b = y forces         *)
(* a := x', then any sequence of value assignments.                        *)
(***************************************************************************)
\* target: {"@source": {when: fixed}}
Forces(target, source, when, fixed) ==
    [k |-> <<target>>, v |->
        Dict(<<[k |-> <<"@", source>>, v |->
                  Dict(<<[k |-> when.s, v |-> Leaf(fixed)]>>)]>>)]

CycleValues == {PyStr(<<"1">>), PyStr(<<"2">>)}

\* the declarations of one parameter, starting at "0"
CycleLeaves(name) ==
    {FixedLeaf(name, PyStr(<<"0">>), 0),
     EnumLeaf(name, <<PyStr(<<"0">>), PyStr(<<"1">>), PyStr(<<"2">>)>>, PyStr(<<"0">>)),
     RangeLeaf(name, PyStr(<<"0">>), PyStr(<<"2">>), PyNone)}

\* {"b": {"@a": {x: y}}, "a": {"@b": {y: x}}}
CycleRule(x, y) == Dict(<<Forces("b", "a", x, y), Forces("a", "b", y, x)>>)

CycleSchemas ==
    {<<a, b, RuleLeaf("rules", CycleRule(x, y))>> :
        a \in CycleLeaves("a"), b \in CycleLeaves("b"),
        x \in CycleValues, y \in CycleValues}

CycleInit ==
    /\ \E schema \in CycleSchemas :
           /\ params = LoadParameters(EmptyCommand, schema).params
           /\ fired = LoadParameters(EmptyCommand, schema).fired
           /\ outcome = IF Failed(LoadParameters(EmptyCommand, schema))
                        THEN LoadParameters(EmptyCommand, schema).err ELSE "ok"
    /\ last = [op |-> "construct", key |-> "", arg |-> PyNone]
    /\ pre = params
    /\ NoAppliance

CycleAssign ==
    /\ Constructed
    /\ \E key \in {"a", "b"} :
           \E v \in CycleValues \cup {PyStr(<<"0">>)} : Assign(key, v)

CycleNext == CycleAssign

SpecCycle == CycleInit /\ [][CycleNext]_vars

\* C31: a trigger cascade that runs through a cycle of rules stops as soon
\* as an effect is a no-op, i.e. its target already holds the forced value:
\* with rules 'A = x forces B := y' and 'B = y forces A := x', the
\* assignment A := x returns after finitely many effect applications, for
\* Fixed, Range and Enum parameters alike.
C31_CycleStops ==
    (last.op = "set" /\ Due(pre[last.key], last.arg) # {}) =>
        outcome # "RecursionError"


(***************************************************************************)
(* SpecLeaf: a command with mode (Enum), a target t that is Fixed, Enum or *)
(* Range, and the rule {"t": {"@mode": {"1": x}}} for a non-dict leaf x,   *)
(* then any sequence of value assignments to mode and t.                   *)
(***************************************************************************)
LeafValues ==
    {PyInt(0), PyInt(1), PyInt(2), PyStr(<<>>), PyStr(<<"0">>), PyStr(<<"1">>),
     PyStr(<<"2">>)}

LeafTargets ==
    {FixedLeaf("t", PyStr(<<"3">>), 0),
     EnumLeaf("t", <<PyStr(<<"1">>), PyStr(<<"3">>)>>, PyStr(<<"3">>)),
     RangeLeaf("t", PyStr(<<"1">>), PyStr(<<"3">>), PyNone)}

LeafSchemas ==
    {<<EnumLeaf("mode", <<PyStr(<<"0">>), PyStr(<<"1">>)>>, PyStr(<<"0">>)),
       target,
       RuleLeaf("rules", Dict(<<[k |-> <<"t">>, v |->
           Dict(<<[k |-> <<"@", "mode">>, v |->
               Dict(<<[k |-> <<"1">>, v |-> Leaf(x)]>>)]>>)]>>))>> :
        target \in LeafTargets, x \in LeafValues}

LeafInit ==
    /\ \E schema \in LeafSchemas :
           /\ params = LoadParameters(EmptyCommand, schema).params
           /\ fired = LoadParameters(EmptyCommand, schema).fired
           /\ outcome = IF Failed(LoadParameters(EmptyCommand, schema))
                        THEN LoadParameters(EmptyCommand, schema).err ELSE "ok"
    /\ last = [op |-> "construct", key |-> "", arg |-> PyNone]
    /\ pre = params
    /\ NoAppliance

LeafAssign ==
    /\ Constructed
    /\ \/ \E v \in {PyStr(<<"0">>), PyStr(<<"1">>)} : Assign("mode", v)
       \/ \E v \in {PyStr(<<"1">>), PyStr(<<"3">>)} : Assign("t", v)

LeafNext == LeafAssign

SpecLeaf == LeafInit /\ [][LeafNext]_vars

\* C32: for every non-dict leaf value x of a rule dict (numbers such as 0
\* and strings alike), firing the rule's trigger forces the target
\* parameter's value to x, exactly as the explicit effect {typology: fixed,
\* fixedValue: x} would.
C32_LeafForcesTarget ==
    (last.op = "set" /\ last.key = "mode" /\ Len(fired) = 1) =>
        /\ outcome = "ok"
        /\ Str(Value(params["t"])) = Str(RuleAt(1).param_data.fixedValue)


(***************************************************************************)
(* SpecOrder: a command with mode (Enum), tempLevel (Fixed, Enum or Range) *)
(* and the rule leaf 'when mode = "1" set tempLevel to 40', its three      *)
(* leaves declared in any order, then any sequence of value assignments.   *)
(***************************************************************************)
OrderTargets ==
    {FixedLeaf("tempLevel", Number(<<"3", "0">>), 0),
     EnumLeaf("tempLevel", <<Number(<<"3", "0">>), Forty>>, Number(<<"3", "0">>)),
     RangeLeaf("tempLevel", Number(<<"3", "0">>), Number(<<"4", "5">>), PyNone),
     RangeLeaf("tempLevel", Number(<<"3", "0">>), Number(<<"3", "9">>), PyNone),
     RangeLeaf("tempLevel", Number(<<"4", "1">>), Number(<<"4", "5">>), PyNone)}

\* the orders in which three leaves can be declared
DeclarationOrders == {o \in [1..3 -> 1..3] : \A i \in 1..3 : \E j \in 1..3 : o[j] = i}

OrderSchemas ==
    {[i \in 1..3 |->
         <<EnumLeaf("mode", <<PyStr(<<"0">>), PyStr(<<"1">>), PyStr(<<"2">>)>>,
                    PyStr(<<"0">>)),
           target,
           RuleLeaf("rules", RuleModeForcesTemp)>>[o[i]]] :
        target \in OrderTargets, o \in DeclarationOrders}

OrderInit ==
    /\ \E schema \in OrderSchemas :
           /\ params = LoadParameters(EmptyCommand, schema).params
           /\ fired = LoadParameters(EmptyCommand, schema).fired
           /\ outcome = IF Failed(LoadParameters(EmptyCommand, schema))
                        THEN LoadParameters(EmptyCommand, schema).err ELSE "ok"
           /\ last = [op |-> "construct", key |-> "", arg |-> PyNone,
                      order |-> [i \in 1..3 |-> schema[i].name]]
    /\ pre = params
    /\ NoAppliance

OrderAssign ==
    /\ Constructed
    /\ \/ \E v \in RulesInputs["mode"] : Assign("mode", v)
       \/ \E v \in {Number(<<"3", "0">>), Forty} : Assign("tempLevel", v)

OrderNext == OrderAssign

SpecOrder == OrderInit /\ [][OrderNext]_vars

\* assigning mode = "1" on the parameters ps returns with tempLevel at 40
FiringForcesTemp(ps) ==
    /\ ~Failed(SetValue(Begin(ps), "mode", PyStr(<<"1">>), 0))
    /\ Str(Value(SetValue(Begin(ps), "mode", PyStr(<<"1">>), 0).params["tempLevel"]))
           = Str(Forty)

\* C33: a rule is wired whatever the declaration order in the schema: when
\* the rule-carrying leaf precedes the declaration of its trigger or target
\* parameter, after the Command is constructed the trigger is registered on
\* the trigger parameter and firing it changes the target; each RuleSet is
\* patched exactly once, after all parameters of the command exist.
C33_WiredWhateverTheOrder ==
    /\ last.op = "construct" =>
           /\ outcome = "ok"
           /\ FixedRuleWired(params)
           /\ TotalCallbacks(params) = 1
           /\ FiringForcesTemp(params)
    /\ last = [op |-> "set", key |-> "mode", arg |-> PyStr(<<"1">>)] =>
           /\ outcome = "ok"
           /\ Len(fired) = 1
           /\ Str(Value(params["tempLevel"])) = Str(Forty)

\* a command was constructed from a schema that declares the rule leaf
\* before mode and tempLevel, and its rule is wired
C33_Witness ==
    /\ last.op = "construct"
    /\ last.order[1] = "rules"
    /\ FixedRuleWired(params)
    /\ FiringForcesTemp(params)


\* C34: after EnumParameter.apply_fixed_value(v) the allowed values are
\* exactly [v] and value equals v, from every prior state of the parameter
\* (including one whose allowed values already are [v] while value
\* differs).
C34_FixedValueNarrowsEnum ==
    (last.op = "apply_fixed_value" /\ pre[last.key].kind = "enum") =>
        /\ outcome = "ok"
        /\ Values(params[last.key]) = <<Str(last.arg)>>
        /\ Str(Value(params[last.key])) = Str(last.arg)


(***************************************************************************)
(* SpecGuard: a HonRuleSet is made from a rule dict for tempLevel as in    *)
(* SpecParse, some of whose leaves are the self reference "@tempLevel".    *)
(***************************************************************************)
SelfReference == PyStr(<<"@", "tempLevel">>)

GuardBranches ==
    {Leaf(Forty), Leaf(SelfReference), OnOpt(<<"1">>, Forty),
     OnOpt(<<"1">>, SelfReference), OnOpt(<<"0", "|", "1">>, SelfReference)}

\* trigger values that share no alternative
GuardTriggerValues == {<<"1">>, <<"2">>, <<"3", "|", "4">>}

\* {"tempLevel": {"@mode": {value: branch, ...}}}
GuardDicts ==
    {Dict(<<[k |-> <<"tempLevel">>, v |->
               Dict(<<[k |-> <<"@", "mode">>, v |-> Dict(items)]>>)]>>) :
        items \in {<<[k |-> a, v |-> x]>> : a \in GuardTriggerValues, x \in GuardBranches}
                  \cup {items \in {<<[k |-> a, v |-> x], [k |-> b, v |-> y]>> :
                                      a \in GuardTriggerValues, b \in GuardTriggerValues,
                                      x \in GuardBranches, y \in GuardBranches} :
                           items[1].k # items[2].k}}

\* HonRuleSet(command, rule)
NewGuardedRuleSet ==
    /\ last.op = "none"
    /\ \E rule \in GuardDicts :
           /\ last' = [op |-> "HonRuleSet", rule |-> rule, ret |-> Parsed(HonRuleSet(rule))]
           /\ outcome' = IF Failed(HonRuleSet(rule)) THEN HonRuleSet(rule).err ELSE "ok"
           /\ UNCHANGED <<params, fired, pre>>
           /\ UNCHANGED hvars

GuardNext == NewGuardedRuleSet

SpecGuard == JsonInit /\ [][GuardNext]_vars

\* the leaves of the parsed dict, one per alternative of their trigger
\* value, that are no self reference
EffectiveLeaves ==
    {leaf \in Enclosed("tempLevel", "mode", last.rule.items[1].v.items[1].v, {}) :
        leaf.fixedValue # SelfReference}

\* C35: parsing a rule dict never produces a rule whose fixedValue is "@"
\* followed by the rule's own target parameter key, and every other leaf of
\* the dict produces exactly one rule per alternative of its trigger value.
C35_SelfReferenceDropped ==
    last.op = "HonRuleSet" =>
        /\ \A i \in 1..Len(last.ret) :
               last.ret[i].param_data.fixedValue # PyStr(<<"@", last.ret[i].param_key>>)
        /\ Len(last.ret) = Cardinality(EffectiveLeaves)
        /\ \A leaf \in EffectiveLeaves :
               \E i \in 1..Len(last.ret) :
                   /\ last.ret[i].trigger_key = leaf.trigger_key
                   /\ last.ret[i].trigger_value = leaf.trigger_value
                   /\ last.ret[i].param_key = leaf.param_key
                   /\ last.ret[i].param_data.fixedValue = leaf.fixedValue


\* the payload holds nothing that parses to a command
NothingParseable(api) == \A i \in 1..Len(api) : api[i].value.kind \notin {"command", "categories"}

\* C36: reading HonCommandLoader.commands terminates for every schema,
\* history and favourites list; in particular, for a schema with no
\* parseable command it returns an empty map after a single parse.
C36_CommandsTerminates ==
    last.op = "load" =>
        /\ outcome # "RecursionError"
        /\ NothingParseable(last.api) => (outcome = "ok" /\ commands = <<>>)


\* C37: in every shared categories map built by the loader, the command
\* stored under key k reports k as the value of its synthetic
\* program/category parameter, and this still holds after any sequence of
\* category selections.
C37_CategoryKeyIsProgramValue ==
    \A m \in 1..Len(maps) : \A i \in 1..Len(maps[m]) :
        /\ ProgramParametersOf(maps[m][i].value) # {}
        /\ \A p \in ProgramParametersOf(maps[m][i].value) :
               Value(p) = PyStr(maps[m][i].key)


(***************************************************************************)
(* SpecSettings: one command name with the categories eco, wool and        *)
(* cotton, each defining the parameter tempLevel in its own way; params    *)
(* holds the three definitions by category.  available_settings is read    *)
(* with the categories map in any insertion order.                         *)
(***************************************************************************)
SettingDefinitions ==
    {FixedParameter("tempLevel", [NoAttributes EXCEPT !.fixedValue = Forty], "parameters"),
     EnumParameter("tempLevel", EnumLeaf("tempLevel", <<Forty>>, Forty).attributes,
                   "parameters"),
     EnumParameter("tempLevel",
                   EnumLeaf("tempLevel", <<Forty, Fifty>>, Forty).attributes, "parameters"),
     EnumParameter("tempLevel",
                   EnumLeaf("tempLevel", <<Number(<<"3", "0">>), Forty, Fifty>>,
                            Forty).attributes, "parameters"),
     RangeParameter("tempLevel",
                    RangeLeaf("tempLevel", Number(<<"3", "9">>), Forty, PyNone).attributes,
                    "parameters"),
     RangeParameter("tempLevel",
                    RangeLeaf("tempLevel", Number(<<"3", "9">>), Number(<<"4", "2">>),
                              PyNone).attributes, "parameters")}

SettingCategories == {"eco", "wool", "cotton"}

\* the insertion orders of the categories map
CategoryOrders ==
    {o \in [1..3 -> SettingCategories] : \A c \in SettingCategories : \E i \in 1..3 : o[i] = c}

SettingsInit ==
    /\ params \in [SettingCategories -> SettingDefinitions]
    /\ fired = <<>>
    /\ outcome = "ok"
    /\ last = NoCall
    /\ pre = params
    /\ NoAppliance

\* the loop of HonCommand.available_settings for one parameter name: result
\* is the category of the Parameter held so far, "" before the first
RECURSIVE AvailableSetting(_, _, _, _)
AvailableSetting(ps, order, i, result) ==
    IF i > Len(order) THEN result
    ELSE AvailableSetting(ps, order, i + 1,
                          IF result = "" THEN order[i]
                          ELSE MoreOptions(ps, result, order[i]))

\* command.available_settings["tempLevel"]
AvailableSettings ==
    /\ last.op = "none"
    /\ \E order \in CategoryOrders :
           Finish(Begin(params),
                  [op |-> "available_settings", order |-> order,
                   ret |-> AvailableSetting(params, order, 1, "")])

SettingsNext == AvailableSettings

SpecSettings == SettingsInit /\ [][SettingsNext]_vars

\* the definitions differ in their number of allowed values
DifferentNumbers(ps) ==
    \A c \in DOMAIN ps : \A d \in DOMAIN ps :
        c # d => Len(Values(ps[c])) # Len(Values(ps[d]))

\* C38: HonCommand.available_settings does not depend on the order of the
\* categories: for a parameter name defined in several categories whose
\* definitions have different numbers of allowed values, the Parameter
\* chosen is the same for every insertion order of the categories.
C38_SettingsOrderIndependent ==
    (last.op = "available_settings" /\ DifferentNumbers(params)) =>
        \A order \in CategoryOrders : AvailableSetting(params, order, 1, "") = last.ret


\* C39: str_to_float(x) returns a number equal to x for every integer,
\* every non-integer number and every numeric string x, so the Range value
\* setter validates and stores exactly the number it was given (e.g. 40.5
\* for a Range with min 40, max 41 and step 0.5, as passed by
\* sync_params_to_command).
C39_StrToFloatKeepsNumber ==
    (last.op = "set" /\ pre[last.key].kind = "range" /\ IsNumber(last.arg)) =>
        /\ str_to_float(last.arg).ok
        /\ str_to_float(last.arg).val.h = NumberOf(last.arg)
        /\ outcome = "ok" => Value(params[last.key]).h = NumberOf(last.arg)


=============================================================================
